---------------------------- MODULE Spec2Model ----------------------------
(***************************************************************************)
(* A model of the minelaunch installation and launch engine                *)
(* (src/src/minecraft.rs, src/src/util.rs, src/src/env.rs).                *)
(*                                                                         *)
(* Strings are sequences of characters.  A character is a TLA+ string: the *)
(* three characters the template regex knows ("$", "{", "}") and opaque    *)
(* characters standing for everything else.  File contents are sequences   *)
(* of bytes.  Every component has its own specification; the variables of  *)
(* the components a specification does not use stay at their idle values.  *)
(***************************************************************************)
EXTENDS Integers, Sequences, FiniteSets, TLC

VARIABLES
    os,          \* util.rs get_os(): the build's target_os
    arch,        \* util.rs get_arch(): the build's target_arch
    cf_entry,    \* check_file: what the filesystem holds at file_path
    cf_sha1,     \* check_file: the sha1 argument
    cf_size,     \* check_file: the size argument
    cf_result,   \* check_file: "none" before the call, then its outcome
    rl_rules,    \* spec_rules_satisfied: the rules argument
    rl_result,   \* spec_rules_satisfied: "none" before the call, then its outcome
    bt_n,        \* batch: the number of fetches in downloaders_vec
    bt_next,     \* batch: how many of them the stream has handed out
    bt_inflight, \* batch: how many fetches are in progress in the buffer
    bt_reported, \* batch: how many ids the while loop has printed
    bt_probe,    \* batch: the position in downloaders_vec of one followed fetch
    bt_probe_at, \* batch: where it is: "queued", "inflight" or "reported"
    bt_probe_reports, \* batch: how often its id was printed
    bt_pc,       \* batch: "idle", "fill", "wait", or "done" after the loop
    rs_pc,       \* resolver: the step get_version_spec is at
    rs_branch,   \* resolver: "none", then "cached" or "download"
    rs_dir,      \* resolver: whether versions/<id>/ exists
    rs_spec_file,  \* resolver: versions/<id>/<id>.json: NoFile or its text
    rs_spec_file0, \* resolver: that file when get_version_spec was called
    rs_jar,      \* resolver: versions/<id>/<id>.jar, a filesystem entry
    rs_net_spec, \* resolver: the text served at version.url
    rs_net_jar,  \* resolver: the bytes served at downloads.client.url
    rs_text,     \* resolver: version_spec_json / spec_json, once read
    rs_spec,     \* resolver: the parsed VersionSpec, once parsed
    rs_jar_check,  \* resolver: the outcome of check_file on the jar
    rs_error,    \* resolver: which unwrap panicked
    rs_log,      \* resolver: the steps performed, in order
    ev_map,      \* Environment.map
    ev_template, \* resolve: the fmt_string argument
    ev_out,      \* resolve: the string returned
    ev_diags,    \* resolve: the keys printed as "Need to define", in order
    ev_pc,       \* environment: "idle", "binding", or "resolved"
    la_version,  \* construct_launch_args: the VersionSpec argument
    la_env0,     \* construct_launch_args: env.map on entry
    la_env,      \* construct_launch_args: env.map on exit
    la_natives,  \* construct_launch_args: names of the libraries extracted
                 \* into natives_dir
    la_raw,      \* construct_launch_args: launch_args before line 671
    la_args,     \* construct_launch_args: the launch_args returned
    la_status,   \* construct_launch_args: "idle", "called", "ok" or "panic"
    as_objects,  \* assets: asset_index.objects, logical name -> hash
    as_virtual_flag,    \* assets: asset_index.virtual_assets
    as_resources_flag,  \* assets: asset_index.map_to_resources
    as_index,    \* assets: the index file: "valid", "absent" or "damaged"
    as_store,    \* assets: assets/objects/<hash[..2]>/<hash>, per hash
    as_virtual,  \* assets: assets/virtual/<assets>/<name>, per name
    as_resources,  \* assets: resources/<name>, per name
    as_virtual0,   \* assets: as_virtual when the pass began
    as_resources0, \* assets: as_resources when the pass began
    as_queue,    \* assets: downloaders_vec, destination and label per fetch
    as_next,     \* assets: how many fetches the stream has handed out
    as_inflight, \* assets: positions of the fetches in progress
    as_reported, \* assets: what the while loop received, in order
    as_pc,       \* assets: the step check_minecraft_assets is at
    ln_pc,       \* launch: the step launch_minecraft_version is at
    ln_major,    \* launch: java_version of the spec: 0 when absent
    ln_runtime,  \* launch: runtime/java<v>-<os>-<arch>/: "absent", "ok", "partial"
    ln_jlink,    \* launch: "none", or jlink's ExitStatus: "ok" or "failed"
    ln_natives_dir,  \* launch: the TempDir: "none", "exists" or "removed"
    ln_child,    \* launch: the Java process: "none", "running" or "exited"
    ln_code,     \* launch: the ExitStatus of the Java process, once it ended
    ln_result,   \* launch: what the caller of launch_minecraft_version gets
    ln_log,      \* launch: the stages completed, in order
    mx_pc,       \* main.rs launch: the step each launch_minecraft_version is at
    mx_lock,     \* main.rs launch: who holds the Mutex: "free" or a launch
    mx_check_env,  \* gui.rs: GUI.check_env
    mx_applied,  \* gui.rs: username changes written to the environment
    mx_refused,  \* gui.rs: CheckEnv messages whose try_lock gave None
    mx_username, \* gui.rs: GUI.username
    mx_auth_player_name,  \* the shared Environment's auth_player_name
    mx_pressed,  \* per launch: GUI.username when the button was pressed
    mx_used,     \* per launch: auth_player_name its arguments were built with
    lb_libs,     \* library pass: version.libraries
    lb_store,    \* library pass: what the artifact and the native paths hold
    lb_next,     \* library pass: the library the loop is at
    lb_checked,  \* library pass: the check_file calls made, with their results
    lb_queue,    \* library pass: downloaders_vec
    lb_reported, \* library pass: fetches the batch loop has received
    lb_pc        \* library pass: "idle", "loop", "batch", "done", "panicked"

platformVars == <<os, arch>>
cfVars == <<cf_entry, cf_sha1, cf_size, cf_result>>
rlVars == <<rl_rules, rl_result>>
btVars == <<bt_n, bt_next, bt_inflight, bt_reported, bt_probe, bt_probe_at,
            bt_probe_reports, bt_pc>>
rsVars == <<rs_pc, rs_branch, rs_dir, rs_spec_file, rs_spec_file0, rs_jar,
            rs_net_spec, rs_net_jar, rs_text, rs_spec, rs_jar_check, rs_error,
            rs_log>>
evVars == <<ev_map, ev_template, ev_out, ev_diags, ev_pc>>
laVars == <<la_version, la_env0, la_env, la_natives, la_raw, la_args,
            la_status>>
asVars == <<as_objects, as_virtual_flag, as_resources_flag, as_index,
            as_store, as_virtual, as_resources, as_virtual0, as_resources0,
            as_queue, as_next, as_inflight, as_reported, as_pc>>
lnVars == <<ln_pc, ln_major, ln_runtime, ln_jlink, ln_natives_dir, ln_child,
            ln_code, ln_result, ln_log>>
mxVars == <<mx_pc, mx_lock, mx_check_env, mx_applied, mx_refused, mx_username,
            mx_auth_player_name, mx_pressed, mx_used>>
lbVars == <<lb_libs, lb_store, lb_next, lb_checked, lb_queue, lb_reported,
            lb_pc>>
vars == <<platformVars, cfVars, rlVars, btVars, rsVars, evVars, laVars,
          asVars, lnVars, mxVars, lbVars>>

\* What the actions of one component leave alone.
CheckFileFrame ==
    UNCHANGED <<platformVars, rlVars, btVars, rsVars, evVars,
                laVars, asVars, lnVars, mxVars, lbVars>>
RulesFrame ==
    UNCHANGED <<platformVars, cfVars, btVars, rsVars, evVars,
                laVars, asVars, lnVars, mxVars, lbVars>>
BatchFrame ==
    UNCHANGED <<platformVars, cfVars, rlVars, rsVars, evVars,
                laVars, asVars, lnVars, mxVars, lbVars>>
ResolverFrame ==
    UNCHANGED <<platformVars, cfVars, rlVars, btVars, evVars,
                laVars, asVars, lnVars, mxVars, lbVars>>
EnvFrame ==
    UNCHANGED <<platformVars, cfVars, rlVars, btVars, rsVars,
                laVars, asVars, lnVars, mxVars, lbVars>>
LaunchArgsFrame ==
    UNCHANGED <<platformVars, cfVars, rlVars, btVars, rsVars,
                evVars, asVars, lnVars, mxVars, lbVars>>
AssetsFrame ==
    UNCHANGED <<platformVars, cfVars, rlVars, btVars, rsVars,
                evVars, laVars, lnVars, mxVars, lbVars>>
LaunchFrame ==
    UNCHANGED <<platformVars, cfVars, rlVars, btVars, rsVars,
                evVars, laVars, asVars, mxVars, lbVars>>
MutexFrame ==
    UNCHANGED <<platformVars, cfVars, rlVars, btVars, rsVars,
                evVars, laVars, asVars, lnVars, lbVars>>
LibrariesFrame ==
    UNCHANGED <<platformVars, cfVars, rlVars, btVars, rsVars,
                evVars, laVars, asVars, lnVars, mxVars>>

---------------------------------------------------------------------------
(* Platform facts (util.rs)                                                *)

OSes == {"windows", "macos", "linux"}
Arches == {"x86", "x64"}

get_os == os
get_arch == arch

\* Mutant: the Minecraft naming of the OS is forgotten.
get_os_minecraft_plain == get_os

get_os_minecraft == IF get_os = "macos" THEN "osx" ELSE get_os

PlatformInit == os \in OSes /\ arch \in Arches

---------------------------------------------------------------------------
(* Integrity checker (util.rs check_file)                                  *)

MaxFileLen == 2
HashSpace == 3

Bytes == {0, 1}
Contents == UNION {[1..n -> Bytes] : n \in 0..MaxFileLen}
Digests == 0..(HashSpace - 1)
Sizes == 0..(MaxFileLen + 1)

\* A digest of the whole content: every byte and its position count.
RECURSIVE Sha1(_)
Sha1(content) ==
    IF content = <<>> THEN 0
    ELSE (2 * Sha1(SubSeq(content, 1, Len(content) - 1))
            + content[Len(content)] + 1) % HashSpace

\* What a path can hold: nothing, a regular file, or a directory.
Absent == [kind |-> "absent"]
FileEntry(content, readable) ==
    [kind |-> "file", content |-> content, readable |-> readable]
DirEntry(len) == [kind |-> "dir", len |-> len]
Entries ==
    {Absent}
    \cup {FileEntry(c, r) : c \in Contents, r \in BOOLEAN}
    \cup {DirEntry(n) : n \in {0, MaxFileLen}}

\* Path::exists
Exists(entry) == entry.kind # "absent"

\* File::open(..).unwrap(): fails on a file without read permission, and on
\* a directory under Windows.
OpenFails(entry) ==
    \/ entry.kind = "file" /\ ~entry.readable
    \/ entry.kind = "dir" /\ get_os = "windows"

\* file.metadata().unwrap().len()
MetadataLen(entry) ==
    IF entry.kind = "file" THEN Len(entry.content) ELSE entry.len

\* Mutant: the digest comparison is left out.
check_file_nohash(entry, sha1, size) ==
    IF ~Exists(entry) THEN "false"
    ELSE IF OpenFails(entry) THEN "panic"
    ELSE IF MetadataLen(entry) # size THEN "false"
    ELSE IF entry.kind = "dir" THEN "panic"
    ELSE "true"

\* The result: "true", "false", or "panic" when an unwrap fails.
check_file(entry, sha1, size) ==
    IF ~Exists(entry) THEN "false"
    ELSE IF OpenFails(entry) THEN "panic"
    ELSE IF MetadataLen(entry) # size THEN "false"
    ELSE IF entry.kind = "dir" THEN "panic"       \* read_to_end: EISDIR
    ELSE IF Sha1(entry.content) # sha1 THEN "false"
    ELSE "true"

CheckFileIdle ==
    /\ cf_entry = Absent
    /\ cf_sha1 = 0
    /\ cf_size = 0
    /\ cf_result = "none"

CheckFileInit ==
    /\ cf_entry \in Entries
    /\ cf_sha1 \in Digests
    /\ cf_size \in Sizes
    /\ cf_result = "none"

CheckFile ==
    /\ cf_result = "none"
    /\ cf_result' = check_file(cf_entry, cf_sha1, cf_size)
    /\ UNCHANGED <<cf_entry, cf_sha1, cf_size>>
    /\ CheckFileFrame

C16_NeverRaises == cf_result \in {"none", "true", "false"}

---------------------------------------------------------------------------
(* Rule evaluator (minecraft.rs spec_rules_satisfied)                      *)

MaxRules == 2

None == "<none>"

\* RuleOS: name and arch are optional; version is never read.
RuleOSNames == {None, "osx", "linux"}
RuleOSArches == {None, "x64"}
NoOS == [present |-> FALSE, name |-> None, arch |-> None]
RuleOSes == [present : {TRUE}, name : RuleOSNames, arch : RuleOSArches]

\* Rule: action is a free string, os is optional, features is optional
\* (only its presence is read).
RuleActions == {"allow", "disallow", "other"}
Rules == [action : RuleActions, os : {NoOS} \cup RuleOSes, features : BOOLEAN]
RuleLists == UNION {[1..n -> Rules] : n \in 0..MaxRules}

os_ok(rule) == rule.os.name = None \/ rule.os.name = get_os_minecraft
arch_ok(rule) == rule.os.arch = None \/ rule.os.arch = get_arch

\* Mutant: a feature constraint is skipped instead of failing the list.
RECURSIVE rules_from_nofeatures(_, _)
rules_from_nofeatures(rules, i) ==
    IF i > Len(rules) THEN "true"
    ELSE LET rule == rules[i] IN
        IF rule.action \notin {"allow", "disallow"} THEN "panic"
        ELSE LET allow_match == (rule.action = "allow") IN
            IF /\ rule.os.present
               /\ \/ os_ok(rule) /\ arch_ok(rule) /\ ~allow_match
                  \/ ~(os_ok(rule) /\ arch_ok(rule)) /\ allow_match
            THEN "false"
            ELSE rules_from_nofeatures(rules, i + 1)

\* Mutant: a rule without os constraint is taken to match every platform.
RECURSIVE rules_from_bare_matches(_, _)
rules_from_bare_matches(rules, i) ==
    IF i > Len(rules) THEN "true"
    ELSE LET rule == rules[i] IN
        IF rule.action \notin {"allow", "disallow"} THEN "panic"
        ELSE LET allow_match == (rule.action = "allow") IN
            IF \/ os_ok(rule) /\ arch_ok(rule) /\ ~allow_match
               \/ ~(os_ok(rule) /\ arch_ok(rule)) /\ allow_match
            THEN "false"
            ELSE IF rule.features THEN "false"
            ELSE rules_from_bare_matches(rules, i + 1)

\* Mutant: the first allow rule that matches decides.
RECURSIVE rules_from_first_allow(_, _)
rules_from_first_allow(rules, i) ==
    IF i > Len(rules) THEN "true"
    ELSE LET rule == rules[i] IN
        IF rule.action \notin {"allow", "disallow"} THEN "panic"
        ELSE LET allow_match == (rule.action = "allow") IN
            IF /\ rule.os.present
               /\ \/ os_ok(rule) /\ arch_ok(rule) /\ ~allow_match
                  \/ ~(os_ok(rule) /\ arch_ok(rule)) /\ allow_match
            THEN "false"
            ELSE IF rule.features THEN "false"
            ELSE IF rule.os.present /\ allow_match THEN "true"
            ELSE rules_from_first_allow(rules, i + 1)

\* The loop of spec_rules_satisfied from rule i on: "true", "false", or
\* "panic" on an action that is neither allow nor disallow.
RECURSIVE rules_from(_, _)
rules_from(rules, i) ==
    IF i > Len(rules) THEN "true"
    ELSE LET rule == rules[i] IN
        IF rule.action \notin {"allow", "disallow"} THEN "panic"
        ELSE LET allow_match == (rule.action = "allow") IN
            IF /\ rule.os.present
               /\ \/ os_ok(rule) /\ arch_ok(rule) /\ ~allow_match
                  \/ ~(os_ok(rule) /\ arch_ok(rule)) /\ allow_match
            THEN "false"
            ELSE IF rule.features THEN "false"
            ELSE rules_from(rules, i + 1)

spec_rules_satisfied(rules) == rules_from(rules, 1)

RulesIdle == rl_rules = <<>> /\ rl_result = "none"

RulesInit == rl_rules \in RuleLists /\ rl_result = "none"

EvalRules ==
    /\ rl_result = "none"
    /\ rl_result' = spec_rules_satisfied(rl_rules)
    /\ UNCHANGED rl_rules
    /\ RulesFrame

KnownAction(rule) == rule.action \in {"allow", "disallow"}

\* C6: a rule list that contains a rule with a feature constraint never
\* evaluates to satisfied, whatever that rule's action and os constraint and
\* whatever the other rules; with allow/disallow actions throughout, the
\* evaluation returns false.
C6_FeatureRuleFails ==
    (rl_result # "none" /\ \E i \in DOMAIN rl_rules : rl_rules[i].features) =>
        /\ rl_result # "true"
        /\ (\A i \in DOMAIN rl_rules : KnownAction(rl_rules[i]))
                => rl_result = "false"

\* An allow rule with a feature constraint and a matching os constraint,
\* behind a rule that passes, was evaluated.
C6_Witness ==
    /\ rl_result = "false"
    /\ Len(rl_rules) = 2
    /\ rl_rules[1] = [action |-> "allow", os |-> NoOS, features |-> FALSE]
    /\ rl_rules[2].features
    /\ rl_rules[2].action = "allow"
    /\ rl_rules[2].os.present
    /\ rl_rules[2].os.name = "linux" /\ os = "linux"
    /\ rl_rules[2].os.arch = None

\* The platform's name in the rules' vocabulary, and whether an os constraint
\* matches the platform, stated from the claim.
PlatformName ==
    CASE os = "windows" -> "windows"
      [] os = "macos" -> "osx"
      [] os = "linux" -> "linux"

ConstraintMatches(c) ==
    /\ c.name = None \/ c.name = PlatformName
    /\ c.arch = None \/ c.arch = arch

Contradicts(rule) ==
    \/ rule.action = "allow" /\ ~ConstraintMatches(rule.os)
    \/ rule.action = "disallow" /\ ConstraintMatches(rule.os)

\* C7: for rules with an os constraint and no feature constraint, the list
\* is satisfied exactly when every rule is an allow whose constraint matches
\* or a disallow whose constraint does not match; the first contradicting
\* rule yields false, whatever follows it; the empty list is satisfied.
C7_OsRules ==
    ( /\ rl_result # "none"
      /\ \A i \in DOMAIN rl_rules :
            rl_rules[i].os.present /\ ~rl_rules[i].features ) =>
        /\ rl_result = "true" <=>
                \A i \in DOMAIN rl_rules :
                    \/ rl_rules[i].action = "allow"
                          /\ ConstraintMatches(rl_rules[i].os)
                    \/ rl_rules[i].action = "disallow"
                          /\ ~ConstraintMatches(rl_rules[i].os)
        /\ \A i \in DOMAIN rl_rules :
                ( /\ Contradicts(rl_rules[i])
                  /\ \A j \in 1..(i - 1) :
                        KnownAction(rl_rules[j]) /\ ~Contradicts(rl_rules[j]) )
                    => rl_result = "false"
        /\ rl_rules = <<>> => rl_result = "true"

\* On macOS, an allow rule naming osx (arch absent) and a disallow rule
\* naming another OS were evaluated: the list is satisfied.
C7_Witness ==
    /\ rl_result = "true"
    /\ os = "macos"
    /\ Len(rl_rules) = 2
    /\ rl_rules[1].action = "allow"
    /\ rl_rules[1].os = [present |-> TRUE, name |-> "osx", arch |-> None]
    /\ rl_rules[2].action = "disallow"
    /\ rl_rules[2].os = [present |-> TRUE, name |-> "linux", arch |-> "x64"]
    /\ ~rl_rules[1].features /\ ~rl_rules[2].features

\* A rule with neither an os constraint nor a feature constraint.
Bare(rule) == ~rule.os.present /\ ~rule.features

\* C28: a rule with neither an os constraint nor a feature constraint,
\* allow or disallow, does not change the result: the list evaluates as it
\* does without these rules, and a list made of such rules only, a bare
\* disallow among them, is satisfied.
C28_BareRulesIgnored ==
    ( /\ rl_result # "none"
      /\ \A i \in DOMAIN rl_rules :
            Bare(rl_rules[i]) => KnownAction(rl_rules[i]) ) =>
        /\ rl_result =
              spec_rules_satisfied(
                  SelectSeq(rl_rules, LAMBDA rule : ~Bare(rule)))
        /\ (\A i \in DOMAIN rl_rules : Bare(rl_rules[i]))
              => rl_result = "true"

\* A bare disallow rule and a bare allow rule were evaluated: satisfied.
C28_Witness ==
    /\ rl_result = "true"
    /\ rl_rules = << [action |-> "disallow", os |-> NoOS, features |-> FALSE],
                     [action |-> "allow", os |-> NoOS, features |-> FALSE] >>

\* The lists of at most MaxRules rules made of the rules of `rules`, each
\* at least once: its permutations, and its rules repeated.
Rearranged(rules) ==
    UNION { { [i \in 1..m |-> rules[p[i]]] :
                p \in {q \in [1..m -> DOMAIN rules] :
                          \A k \in DOMAIN rules : \E i \in 1..m : q[i] = k} } :
            m \in 0..MaxRules }

\* C29: with allow and disallow actions only, the result is the same for
\* every permutation of the list and every list of the same rules; the
\* evaluation changes neither the rules nor the platform, and a result once
\* given stays.
C29_OrderIndependent ==
    /\ []( ( /\ rl_result # "none"
             /\ \A i \in DOMAIN rl_rules : KnownAction(rl_rules[i]) ) =>
              \A other \in Rearranged(rl_rules) :
                  spec_rules_satisfied(other) = rl_result )
    /\ [][ /\ rl_rules' = rl_rules
           /\ os' = os /\ arch' = arch
           /\ rl_result # "none" => rl_result' = rl_result ]_vars

\* An allow rule that matches before a disallow rule that matches: false,
\* as for the two in the other order.
C29_Witness ==
    /\ rl_result = "false"
    /\ Len(rl_rules) = 2
    /\ rl_rules[1].action = "allow" /\ rl_rules[2].action = "disallow"
    /\ \A i \in DOMAIN rl_rules :
          /\ rl_rules[i].os.present /\ ~rl_rules[i].features
          /\ ConstraintMatches(rl_rules[i].os)

---------------------------------------------------------------------------
(* Verified fetcher batch (minecraft.rs check_minecraft_libraries lines    *)
(* 442-447, check_minecraft_assets lines 499-504)                          *)
(*                                                                         *)
(* downloaders_vec holds bt_n fetches, numbered in submission order.  The  *)
(* fetches are alike, so the batch is counted, and one fetch, bt_probe, is *)
(* followed by name.  A fetch does nothing before the buffer first polls   *)
(* it.                                                                     *)

MaxItems == 40

\* buffer_unordered(25)
buffer_width == 25

BatchSizes == {0, 1, buffer_width, buffer_width + 1, MaxItems}

Min(a, b) == IF a < b THEN a ELSE b

BatchIdle ==
    /\ bt_n = 0
    /\ bt_next = 0
    /\ bt_inflight = 0
    /\ bt_reported = 0
    /\ bt_probe = 0
    /\ bt_probe_at = "queued"
    /\ bt_probe_reports = 0
    /\ bt_pc = "idle"

\* The state when the stream is built: nothing handed out, nothing running.
BatchInit ==
    /\ bt_n \in BatchSizes
    /\ bt_probe \in (IF bt_n = 0 THEN {0} ELSE 1..bt_n)
    /\ bt_next = 0
    /\ bt_inflight = 0
    /\ bt_reported = 0
    /\ bt_probe_at = "queued"
    /\ bt_probe_reports = 0
    /\ bt_pc = "fill"

\* Mutant: the buffer takes everything the stream has.
FillCountUncapped == bt_n - bt_next

\* How many fetches a poll of the buffer takes from the stream: as many as
\* fit under the width.
FillCount == Min(buffer_width - bt_inflight, bt_n - bt_next)

\* downloaders.next(): the buffer first fills itself from the stream.
BatchFill ==
    /\ bt_pc = "fill"
    /\ bt_next' = bt_next + FillCount
    /\ bt_inflight' = bt_inflight + FillCount
    /\ bt_probe_at' =
          IF bt_next < bt_probe /\ bt_probe <= bt_next + FillCount
          THEN "inflight" ELSE bt_probe_at
    /\ bt_pc' = "wait"
    /\ UNCHANGED <<bt_n, bt_reported, bt_probe, bt_probe_reports>>
    /\ BatchFrame

\* download_to_file: a fetch in progress finishes and yields its id.
FetchDone(isProbe) ==
    IF isProbe THEN bt_probe_at = "inflight"
    ELSE bt_inflight > (IF bt_probe_at = "inflight" THEN 1 ELSE 0)

\* while let Some(id) = downloaders.next().await: one fetch of the buffer
\* finishes, whichever, and its id is printed.
BatchYield ==
    /\ bt_pc = "wait"
    /\ \E isProbe \in BOOLEAN :
          /\ FetchDone(isProbe)
          /\ bt_probe_at' = IF isProbe THEN "reported" ELSE bt_probe_at
          /\ bt_probe_reports' = bt_probe_reports + (IF isProbe THEN 1 ELSE 0)
    /\ bt_inflight' = bt_inflight - 1
    /\ bt_reported' = bt_reported + 1
    /\ bt_pc' = "fill"
    /\ UNCHANGED <<bt_n, bt_next, bt_probe>>
    /\ BatchFrame

\* Mutant: the stream ends as soon as the source is drained.
StreamEndedEarly == bt_next = bt_n

\* Whether the buffer ends the stream: nothing in progress, nothing left.
StreamEnded == bt_inflight = 0 /\ bt_next = bt_n

\* downloaders.next() returns None and the loop ends.
BatchEnd ==
    /\ bt_pc = "wait"
    /\ StreamEnded
    /\ bt_pc' = "done"
    /\ UNCHANGED <<bt_n, bt_next, bt_inflight, bt_reported, bt_probe,
                   bt_probe_at, bt_probe_reports>>
    /\ BatchFrame

\* C2: at no time are more than 25 fetches of a batch in flight, however
\* many are queued.
C2_AtMost25InFlight == bt_inflight <= 25

\* 40 fetches were queued, 25 are in flight and the others wait.
C2_Witness ==
    /\ bt_n = 40
    /\ bt_inflight = 25
    /\ bt_next < bt_n
    /\ bt_reported > 0

BatchSafe ==
    /\ bt_probe_reports <= 1
    /\ bt_reported <= bt_n
    /\ bt_probe_reports = 1 <=> bt_probe_at = "reported"
    /\ bt_pc = "done" =>
          /\ bt_reported = bt_n
          /\ bt_inflight = 0
          /\ bt_probe # 0 => bt_probe_reports = 1

\* C3: every fetch queued in a batch is reported exactly once, the loop
\* ends only after all of them have completed, and it does end.
C3_BatchCompletes == []BatchSafe /\ <>(bt_pc = "done")

\* The first fetch submitted is still in flight when fetches submitted
\* after it, some of them from behind the width, have been reported.
C3_Witness ==
    /\ bt_n > buffer_width
    /\ bt_probe = 1
    /\ bt_probe_at = "inflight"
    /\ bt_reported > 1
    /\ bt_next = bt_n

---------------------------------------------------------------------------
(* Version and spec resolver (minecraft.rs get_version_spec,               *)
(* download_minecraft_version, download_minecraft_jar)                     *)
(*                                                                         *)
(* One version id; the spec document served for it and the one cached for  *)
(* it carry that id.  A spec document is a text; what the resolver reads   *)
(* of it is whether it parses and its downloads.client descriptor, and the *)
(* rest of the text (fields VersionSpec does not keep, layout) is `extra`. *)

NoFile == [kind |-> "absent"]
NoSpec == [parsed |-> FALSE]

\* The descriptor of the jar a document names: the length and digest of some
\* content.
Descriptor(content) == [sha1 |-> Sha1(content), size |-> Len(content)]
Descriptors == {Descriptor(c) : c \in [1..MaxFileLen -> Bytes]}

Docs == [kind : {"text"}, wellFormed : BOOLEAN, client : Descriptors,
         extra : {0, 1}]

\* The file File::create leaves: an empty text, which does not parse.
EmptyText == [kind |-> "empty", wellFormed |-> FALSE,
              client |-> Descriptor(<<>>), extra |-> 0]

\* serde_json::from_str::<VersionSpec>: fails on a malformed text, keeps the
\* fields of VersionSpec otherwise.
ParseOk(text) == text.wellFormed
Parse(text) == [parsed |-> TRUE, client |-> text.client]

\* The text serde would write for a VersionSpec.
Serialize(spec) ==
    [kind |-> "text", wellFormed |-> TRUE, client |-> spec.client, extra |-> 0]

ResolverIdle ==
    /\ rs_pc = "idle"
    /\ rs_branch = "none"
    /\ rs_dir = FALSE
    /\ rs_spec_file = NoFile
    /\ rs_spec_file0 = NoFile
    /\ rs_jar = Absent
    /\ rs_net_spec = NoFile
    /\ rs_net_jar = <<>>
    /\ rs_text = NoFile
    /\ rs_spec = NoSpec
    /\ rs_jar_check = "none"
    /\ rs_error = "none"
    /\ rs_log = <<>>

\* The installation directory and the two servers when get_version_spec is
\* called.  A spec file or a jar exists only inside the version folder.
ResolverInit ==
    /\ rs_pc = "start"
    /\ rs_branch = "none"
    /\ rs_spec_file \in {NoFile} \cup Docs
    /\ rs_spec_file0 = rs_spec_file
    /\ rs_jar \in Entries
    /\ rs_dir \in BOOLEAN
    /\ (rs_spec_file # NoFile \/ rs_jar # Absent) => rs_dir
    /\ rs_net_spec \in Docs
    /\ rs_spec_file # NoFile => rs_net_spec = rs_spec_file
    /\ rs_net_jar \in Contents
    /\ rs_text = NoFile
    /\ rs_spec = NoSpec
    /\ rs_jar_check = "none"
    /\ rs_error = "none"
    /\ rs_log = <<>>

\* The statements of download_minecraft_jar, in program order.
download_minecraft_jar == <<"jar_get", "jar_create", "jar_body", "jar_write">>

\* Mutant: the spec is parsed before it is persisted.
download_minecraft_version_parse_first ==
    <<"mkdir", "spec_get", "spec_body", "parse", "spec_create", "spec_write">>
        \o download_minecraft_jar

\* The statements of download_minecraft_version, in program order, with
\* those of the download_minecraft_jar it calls.
download_minecraft_version ==
    <<"mkdir", "spec_get", "spec_create", "spec_body", "spec_write", "parse">>
        \o download_minecraft_jar

\* The statement after `step` in a listing, "return" after the last.
After(listing, step) ==
    LET i == CHOOSE k \in DOMAIN listing : listing[k] = step
    IN IF i = Len(listing) THEN "return" ELSE listing[i + 1]

\* Where control goes after `step`: download_minecraft_jar is the tail of
\* download_minecraft_version, and both its callers return after it.
Successor(step) == After(download_minecraft_version, step)

\* Mutant: a damaged jar makes the resolver download the whole version again.
AfterJarCheckWholeVersion(result) ==
    CASE result = "true" -> "return"
      [] result = "false" -> download_minecraft_version[1]
      [] result = "panic" -> "panic"

\* get_version_spec after check_file on the jar: a valid jar is kept, a
\* damaged one is downloaded again.
AfterJarCheck(result) ==
    CASE result = "true" -> "return"
      [] result = "false" -> download_minecraft_jar[1]
      [] result = "panic" -> "panic"

Step(step, next) ==
    /\ rs_pc = step
    /\ rs_pc' = next
    /\ rs_log' = Append(rs_log, step)
    /\ rs_error' = "none"

Panic(step, error) ==
    /\ rs_pc = step
    /\ rs_pc' = "panic"
    /\ rs_log' = Append(rs_log, step)
    /\ rs_error' = error

\* get_version_spec, lines 320-321 and 339-341: does the spec file exist?
ResolverStart ==
    /\ rs_pc = "start"
    /\ rs_branch' = IF rs_spec_file # NoFile THEN "cached" ELSE "download"
    /\ rs_pc' = IF rs_spec_file # NoFile THEN "read"
                ELSE download_minecraft_version[1]
    /\ UNCHANGED <<rs_dir, rs_spec_file, rs_spec_file0, rs_jar, rs_net_spec,
                   rs_net_jar, rs_text, rs_spec, rs_jar_check, rs_error, rs_log>>
    /\ ResolverFrame

\* get_version_spec, lines 323-326: read and parse the cached spec.
CachedRead ==
    /\ rs_pc = "read"
    /\ IF ParseOk(rs_spec_file)
       THEN Step("read", "check") /\ rs_spec' = Parse(rs_spec_file)
       ELSE Panic("read", "parse") /\ UNCHANGED rs_spec
    /\ rs_text' = rs_spec_file
    /\ UNCHANGED <<rs_branch, rs_dir, rs_spec_file, rs_spec_file0, rs_jar,
                   rs_net_spec, rs_net_jar, rs_jar_check>>
    /\ ResolverFrame

\* get_version_spec, lines 329-335: check the jar against the descriptor.
CachedCheck ==
    /\ rs_pc = "check"
    /\ LET result ==
            check_file(rs_jar, rs_spec.client.sha1, rs_spec.client.size)
       IN /\ IF result = "panic" THEN Panic("check", "io")
             ELSE Step("check", AfterJarCheck(result))
          /\ rs_jar_check' = result
    /\ UNCHANGED <<rs_branch, rs_dir, rs_spec_file, rs_spec_file0, rs_jar,
                   rs_net_spec, rs_net_jar, rs_text, rs_spec>>
    /\ ResolverFrame

\* download_minecraft_version, lines 347-349: create the version folder.
Mkdir ==
    /\ rs_pc = "mkdir"
    /\ \E ok \in BOOLEAN :
          IF ok THEN Step("mkdir", Successor("mkdir")) /\ rs_dir' = TRUE
          ELSE ~rs_dir /\ Panic("mkdir", "io") /\ UNCHANGED rs_dir
    /\ UNCHANGED <<rs_branch, rs_spec_file, rs_spec_file0, rs_jar, rs_net_spec,
                   rs_net_jar, rs_text, rs_spec, rs_jar_check>>
    /\ ResolverFrame

\* Mutant: a failed request is reported as a failure of the file system.
Network_as_io(step) ==
    \E ok \in BOOLEAN :
        IF ok THEN Step(step, Successor(step)) ELSE Panic(step, "io")

\* A request or the reading of a response body: reqwest::get(..).await
\* .unwrap(), .text().await.unwrap(), .bytes().await.unwrap().
Network(step) ==
    \E ok \in BOOLEAN :
        IF ok THEN Step(step, Successor(step)) ELSE Panic(step, "network")

\* download_minecraft_version, line 353.
SpecGet ==
    /\ rs_pc = "spec_get"
    /\ Network("spec_get")
    /\ UNCHANGED <<rs_branch, rs_dir, rs_spec_file, rs_spec_file0, rs_jar,
                   rs_net_spec, rs_net_jar, rs_text, rs_spec, rs_jar_check>>
    /\ ResolverFrame

\* download_minecraft_version, line 355: File::create makes the file empty.
SpecCreate ==
    /\ rs_pc = "spec_create"
    /\ \E ok \in BOOLEAN :
          IF ok /\ rs_dir
          THEN /\ Step("spec_create", Successor("spec_create"))
               /\ rs_spec_file' = EmptyText
          ELSE Panic("spec_create", "io") /\ UNCHANGED rs_spec_file
    /\ UNCHANGED <<rs_branch, rs_dir, rs_spec_file0, rs_jar, rs_net_spec,
                   rs_net_jar, rs_text, rs_spec, rs_jar_check>>
    /\ ResolverFrame

\* download_minecraft_version, line 357: the response text.
SpecBody ==
    /\ rs_pc = "spec_body"
    /\ Network("spec_body")
    /\ rs_text' = IF rs_pc' = "panic" THEN rs_text ELSE rs_net_spec
    /\ UNCHANGED <<rs_branch, rs_dir, rs_spec_file, rs_spec_file0, rs_jar,
                   rs_net_spec, rs_net_jar, rs_spec, rs_jar_check>>
    /\ ResolverFrame

\* Mutant: the spec is written back from the parsed VersionSpec.
PersistedReserialized(text) ==
    IF ParseOk(text) THEN Serialize(Parse(text)) ELSE text

\* What line 358 writes: version_spec_json.as_bytes().
Persisted(text) == text

\* download_minecraft_version, line 358: write the text to the file.
SpecWrite ==
    /\ rs_pc = "spec_write"
    /\ \E ok \in BOOLEAN :
          IF ok
          THEN /\ Step("spec_write", Successor("spec_write"))
               /\ rs_spec_file' = Persisted(rs_text)
          ELSE Panic("spec_write", "io") /\ UNCHANGED rs_spec_file
    /\ UNCHANGED <<rs_branch, rs_dir, rs_spec_file0, rs_jar, rs_net_spec,
                   rs_net_jar, rs_text, rs_spec, rs_jar_check>>
    /\ ResolverFrame

\* download_minecraft_version, line 361: parse the text.
ParseSpec ==
    /\ rs_pc = "parse"
    /\ IF ParseOk(rs_text)
       THEN Step("parse", Successor("parse")) /\ rs_spec' = Parse(rs_text)
       ELSE Panic("parse", "parse") /\ UNCHANGED rs_spec
    /\ UNCHANGED <<rs_branch, rs_dir, rs_spec_file, rs_spec_file0, rs_jar,
                   rs_net_spec, rs_net_jar, rs_text, rs_jar_check>>
    /\ ResolverFrame

\* download_minecraft_jar, line 373.
JarGet ==
    /\ rs_pc = "jar_get"
    /\ Network("jar_get")
    /\ UNCHANGED <<rs_branch, rs_dir, rs_spec_file, rs_spec_file0, rs_jar,
                   rs_net_spec, rs_net_jar, rs_text, rs_spec, rs_jar_check>>
    /\ ResolverFrame

\* download_minecraft_jar, line 375: File::create makes the file empty; it
\* fails on a directory.
JarCreate ==
    /\ rs_pc = "jar_create"
    /\ \E ok \in BOOLEAN :
          IF ok /\ rs_dir /\ rs_jar.kind # "dir"
          THEN /\ Step("jar_create", Successor("jar_create"))
               /\ rs_jar' = FileEntry(<<>>, TRUE)
          ELSE Panic("jar_create", "io") /\ UNCHANGED rs_jar
    /\ UNCHANGED <<rs_branch, rs_dir, rs_spec_file, rs_spec_file0, rs_net_spec,
                   rs_net_jar, rs_text, rs_spec, rs_jar_check>>
    /\ ResolverFrame

\* download_minecraft_jar, line 376: the response bytes.
JarBody ==
    /\ rs_pc = "jar_body"
    /\ Network("jar_body")
    /\ UNCHANGED <<rs_branch, rs_dir, rs_spec_file, rs_spec_file0, rs_jar,
                   rs_net_spec, rs_net_jar, rs_text, rs_spec, rs_jar_check>>
    /\ ResolverFrame

\* download_minecraft_jar, line 376: write_all.
JarWrite ==
    /\ rs_pc = "jar_write"
    /\ \E ok \in BOOLEAN :
          IF ok
          THEN /\ Step("jar_write", Successor("jar_write"))
               /\ rs_jar' = FileEntry(rs_net_jar, TRUE)
          ELSE Panic("jar_write", "io") /\ UNCHANGED rs_jar
    /\ UNCHANGED <<rs_branch, rs_dir, rs_spec_file, rs_spec_file0, rs_net_spec,
                   rs_net_jar, rs_text, rs_spec, rs_jar_check>>
    /\ ResolverFrame

\* get_version_spec, lines 337 and 341: the spec goes back to the caller.
ResolverReturn ==
    /\ rs_pc = "return"
    /\ rs_pc' = "returned"
    /\ UNCHANGED <<rs_branch, rs_dir, rs_spec_file, rs_spec_file0, rs_jar,
                   rs_net_spec, rs_net_jar, rs_text, rs_spec, rs_jar_check,
                   rs_error, rs_log>>
    /\ ResolverFrame

SpecSteps ==
    {"mkdir", "spec_get", "spec_create", "spec_body", "spec_write", "parse"}

\* C4: when a cached spec file exists and its jar fails the integrity
\* check, the resolver downloads the jar and nothing else: the spec file is
\* neither downloaded nor written, and holds what it held when the resolver
\* returns the spec parsed from it.
C4_OnlyJarRefetched ==
    (rs_branch = "cached" /\ rs_jar_check = "false") =>
        /\ rs_spec_file = rs_spec_file0
        /\ \A i \in DOMAIN rs_log : rs_log[i] \notin SpecSteps
        /\ rs_pc = "returned" =>
              /\ rs_log = <<"read", "check", "jar_get", "jar_create",
                            "jar_body", "jar_write">>
              /\ rs_jar = FileEntry(rs_net_jar, TRUE)
              /\ rs_spec = Parse(rs_spec_file0)

\* The resolver returned after replacing a damaged jar by a valid one,
\* beside a cached spec file.
C4_Witness ==
    /\ rs_pc = "returned"
    /\ rs_branch = "cached"
    /\ rs_jar_check = "false"
    /\ rs_spec_file.extra = 1
    /\ check_file(rs_jar, rs_spec.client.sha1, rs_spec.client.size) = "true"

IsPrefix(s, t) == Len(s) <= Len(t) /\ s = SubSeq(t, 1, Len(s))

DownloadOrder ==
    <<"mkdir", "spec_get", "spec_create", "spec_body", "spec_write", "parse",
      "jar_get", "jar_create", "jar_body", "jar_write">>

\* C5: with no spec file, the resolver downloads the spec text, writes it
\* to the spec file as downloaded, parses it, downloads the jar to the jar
\* file without checking it, and returns the parsed spec, in this order.
C5_FirstDownloadOrder ==
    rs_branch = "download" =>
        /\ IsPrefix(rs_log, DownloadOrder)
        /\ rs_jar_check = "none"
        /\ rs_spec # NoSpec => rs_spec_file = rs_net_spec
        /\ rs_pc = "returned" =>
              /\ rs_log = DownloadOrder
              /\ rs_spec_file = rs_net_spec
              /\ rs_spec = Parse(rs_net_spec)
              /\ rs_jar = FileEntry(rs_net_jar, TRUE)

\* The resolver returned from a first download whose jar does not match the
\* spec's descriptor.
C5_Witness ==
    /\ rs_pc = "returned"
    /\ rs_branch = "download"
    /\ rs_spec_file0 = NoFile
    /\ rs_spec_file.extra = 1
    /\ check_file(rs_jar, rs_spec.client.sha1, rs_spec.client.size) = "false"

NetworkSteps == {"spec_get", "spec_body", "jar_get", "jar_body"}
ParseSteps == {"read", "parse"}
FileSteps ==
    {"check", "mkdir", "spec_create", "spec_write", "jar_create", "jar_write"}

C21_NoSpecFileAfterMalformed ==
    (rs_branch = "download" /\ rs_pc = "panic" /\ rs_error = "parse")
        => rs_spec_file = NoFile

\* C27: the fetch of the jar and the fetch of the spec write their
\* destination atomically: a step that changes the file at the destination
\* finds the version folder in place and leaves the whole downloaded
\* content there, so that no empty or partly written file is ever at the
\* path, also when the transfer fails on the way.
C27_AtomicWrite ==
    [][ /\ rs_jar' # rs_jar =>
              rs_dir /\ rs_jar' = FileEntry(rs_net_jar, TRUE)
        /\ rs_spec_file' # rs_spec_file =>
              rs_dir /\ rs_spec_file' = rs_net_spec ]_vars

---------------------------------------------------------------------------
(* Environment and template store (env.rs)                                 *)

MaxParts == 3

\* Templates are put together from these pieces.
Fragments ==
    { <<"$", "{", "a", "}">>, <<"$", "{", "b", "}">>, <<"$", "{">>, <<"}">>,
      <<"a">>, <<"$">> }

RECURSIVE Flatten(_)
Flatten(parts) ==
    IF parts = <<>> THEN <<>> ELSE Head(parts) \o Flatten(Tail(parts))

Templates ==
    {Flatten(parts) : parts \in UNION {[1..n -> Fragments] : n \in 0..MaxParts}}

EnvKeys == {<<"a">>, <<>>}
EnvValues == {<<"x">>, <<"$", "{", "a", "}">>}

SetMin(S) == CHOOSE x \in S : \A y \in S : x <= y

\* Environment::new
EnvNew == << >>

\* Environment::set: BTreeMap::insert
EnvSet(map, variable, value) ==
    [k \in DOMAIN map \cup {variable} |->
        IF k = variable THEN value ELSE map[k]]

\* Environment::remove: BTreeMap::remove
EnvRemove(map, variable) == [k \in DOMAIN map \ {variable} |-> map[k]]

\* REPLACEMENT_REGEX, \$\{([^\}]*)\}: the positions from `pos` on where a
\* match can start, and where the match starting at i ends.
MatchStarts(s, pos) ==
    {i \in pos..(Len(s) - 2) :
        /\ s[i] = "$"
        /\ s[i + 1] = "{"
        /\ \E j \in (i + 2)..Len(s) : s[j] = "}"}
MatchEnd(s, i) == SetMin({j \in (i + 2)..Len(s) : s[j] = "}"})

\* The closure given to replace_all: the bound value, or "" and a line
\* printed.
Replacement(map, key) ==
    IF key \in DOMAIN map
    THEN [text |-> map[key], diags |-> <<>>]
    ELSE [text |-> <<>>, diags |-> <<key>>]

\* Mutant: Regex::replace, which replaces the first match only.
resolve_from_first_only(map, s, pos) ==
    IF MatchStarts(s, pos) = {}
    THEN [out |-> SubSeq(s, pos, Len(s)), diags |-> <<>>]
    ELSE LET i == SetMin(MatchStarts(s, pos))
             j == MatchEnd(s, i)
             r == Replacement(map, SubSeq(s, i + 2, j - 1))
         IN [out |-> SubSeq(s, pos, i - 1) \o r.text \o SubSeq(s, j + 1, Len(s)),
             diags |-> r.diags]

\* Regex::replace_all from `pos` on: the text up to the leftmost match, the
\* replacement of the match, then the same for what follows the match.
RECURSIVE resolve_from(_, _, _)
resolve_from(map, s, pos) ==
    IF MatchStarts(s, pos) = {}
    THEN [out |-> SubSeq(s, pos, Len(s)), diags |-> <<>>]
    ELSE LET i == SetMin(MatchStarts(s, pos))
             j == MatchEnd(s, i)
             r == Replacement(map, SubSeq(s, i + 2, j - 1))
             rest == resolve_from(map, s, j + 1)
         IN [out |-> SubSeq(s, pos, i - 1) \o r.text \o rest.out,
             diags |-> r.diags \o rest.diags]

\* Environment::resolve
resolve(map, fmt_string) == resolve_from(map, fmt_string, 1)

EnvIdle ==
    /\ ev_map = EnvNew
    /\ ev_template = <<>>
    /\ ev_out = <<>>
    /\ ev_diags = <<>>
    /\ ev_pc = "idle"

EnvInit ==
    /\ ev_map = EnvNew
    /\ ev_template \in Templates
    /\ ev_out = <<>>
    /\ ev_diags = <<>>
    /\ ev_pc = "binding"

Set ==
    /\ ev_pc = "binding"
    /\ \E variable \in EnvKeys, value \in EnvValues :
          ev_map' = EnvSet(ev_map, variable, value)
    /\ UNCHANGED <<ev_template, ev_out, ev_diags, ev_pc>>
    /\ EnvFrame

Remove ==
    /\ ev_pc = "binding"
    /\ \E variable \in EnvKeys : ev_map' = EnvRemove(ev_map, variable)
    /\ UNCHANGED <<ev_template, ev_out, ev_diags, ev_pc>>
    /\ EnvFrame

Resolve ==
    /\ ev_pc = "binding"
    /\ LET r == resolve(ev_map, ev_template)
       IN ev_out' = r.out /\ ev_diags' = r.diags
    /\ ev_pc' = "resolved"
    /\ UNCHANGED <<ev_map, ev_template>>
    /\ EnvFrame

\* The `${key}` occurrences of a string, stated from the claim: s[i..j] is
\* "${", a key without "}", and "}", and it does not lie inside an
\* occurrence that starts further left.
TokenAt(s, i, j) ==
    /\ i >= 1 /\ i + 2 <= j /\ j <= Len(s)
    /\ s[i] = "$" /\ s[i + 1] = "{" /\ s[j] = "}"
    /\ \A k \in (i + 2)..(j - 1) : s[k] # "}"
AllTokens(s) ==
    {t \in (1..Len(s)) \X (1..Len(s)) : TokenAt(s, t[1], t[2])}
Occurrences(s) ==
    {t \in AllTokens(s) :
        ~\E u \in AllTokens(s) : u[1] < t[1] /\ t[1] <= u[2]}
KeyOf(s, t) == SubSeq(s, t[1] + 2, t[2] - 1)

\* s from `pos` on with each occurrence replaced by the value bound to its
\* key, or by nothing when the key is unbound.
RECURSIVE Substituted(_, _, _)
Substituted(map, s, pos) ==
    LET later == {t \in Occurrences(s) : t[1] >= pos} IN
    IF later = {} THEN SubSeq(s, pos, Len(s))
    ELSE LET t == CHOOSE u \in later : \A v \in later : u[1] <= v[1]
             key == KeyOf(s, t)
         IN SubSeq(s, pos, t[1] - 1)
            \o (IF key \in DOMAIN map THEN map[key] ELSE <<>>)
            \o Substituted(map, s, t[2] + 1)

\* C8: resolve replaces every `${key}` occurrence by the value bound to key
\* when it is called, replaces an occurrence of an unbound key by nothing
\* and prints one line for it, and returns a template without occurrences
\* unchanged.
C8_Resolve ==
    ev_pc = "resolved" =>
        /\ ev_out = Substituted(ev_map, ev_template, 1)
        /\ Len(ev_diags) =
              Cardinality({t \in Occurrences(ev_template) :
                              KeyOf(ev_template, t) \notin DOMAIN ev_map})
        /\ \A n \in DOMAIN ev_diags : ev_diags[n] \notin DOMAIN ev_map
        /\ Occurrences(ev_template) = {} =>
              ev_out = ev_template /\ ev_diags = <<>>

\* "${b}${a}${b}" was resolved with a bound and b unbound: the value of a,
\* and two lines printed for b.
C8_Witness ==
    /\ ev_pc = "resolved"
    /\ ev_template = <<"$", "{", "b", "}", "$", "{", "a", "}",
                       "$", "{", "b", "}">>
    /\ DOMAIN ev_map = {<<"a">>}
    /\ ev_out = ev_map[<<"a">>]
    /\ ev_diags = << <<"b">>, <<"b">> >>

---------------------------------------------------------------------------
(* Launch composer (minecraft.rs construct_launch_args)                    *)

MaxLibs == 2
MaxArgs == 2

\* Option<T>
Some(v) == [some |-> TRUE, v |-> v]
Nothing == [some |-> FALSE, v |-> <<>>]

OsRule(action, name, a) ==
    [action |-> action, os |-> [present |-> TRUE, name |-> name, arch |-> a],
     features |-> FALSE]
BareRule(action) == [action |-> action, os |-> NoOS, features |-> FALSE]
FeatureRule(action) == [action |-> action, os |-> NoOS, features |-> TRUE]

\* Library: its name, rules, downloads.artifact (with its optional path),
\* the fields of natives that are set, and whether the native jar named for
\* this platform is listed among the classifiers with a path and can be
\* opened and extracted.
Library(name, rules, artifact, natives, native_ok) ==
    [name |-> name, rules |-> rules, artifact |-> artifact,
     natives |-> natives, native_ok |-> native_ok]

LibraryShapes ==
    { Library("plain", Nothing, Some(Some(<<"plain.jar">>)), {}, TRUE),
      Library("osxonly", Some(<<OsRule("allow", "osx", None)>>),
              Some(Some(<<"osxonly.jar">>)), {}, TRUE),
      Library("notosx",
              Some(<<BareRule("allow"), OsRule("disallow", "osx", None)>>),
              Some(Some(<<"notosx.jar">>)), {"linux", "windows"}, TRUE),
      Library("natives", Nothing, Nothing, {"linux", "osx", "windows"}, TRUE),
      Library("demo", Some(<<FeatureRule("allow")>>),
              Some(Some(<<"demo.jar">>)), {}, TRUE),
      Library("nopath", Some(<<OsRule("allow", "windows", None)>>),
              Some(Nothing), {}, TRUE),
      Library("broken", Some(<<OsRule("allow", None, "x64")>>),
              Some(Some(<<"broken.jar">>)), {"osx"}, FALSE),
      Library("odd", Some(<<OsRule("permit", "linux", None)>>),
              Some(Some(<<"odd.jar">>)), {}, TRUE) }

\* Argument: Static(String) or Dynamic(rules, value), the value a single
\* string or a vector of strings.
Static(str) == [dynamic |-> FALSE, rules |-> <<>>, single |-> TRUE,
                value |-> <<str>>]
Single(rules, str) == [dynamic |-> TRUE, rules |-> rules, single |-> TRUE,
                       value |-> <<str>>]
Vector(rules, strs) == [dynamic |-> TRUE, rules |-> rules, single |-> FALSE,
                        value |-> strs]

ArgumentShapes ==
    { Static(<<"-cp">>),
      Static(<<"$", "{", "classpath", "}">>),
      Single(<<OsRule("allow", "osx", None)>>, <<"-XstartOnFirstThread">>),
      Vector(<<OsRule("allow", None, "x86")>>,
             << <<"-Xss1M">>, <<"-D=", "$", "{", "natives_directory", "}">> >>),
      Vector(<<FeatureRule("allow")>>, << <<"--demo">>, <<"--w">> >>),
      Single(<<OsRule("permit", "linux", None)>>, <<"--odd">>) }

ArgumentLists == UNION {[1..n -> ArgumentShapes] : n \in 0..MaxArgs}
FixedArgumentLists ==
    { << Static(<<"--gameDir">>) >>,
      << Vector(<<OsRule("allow", None, "x64")>>,
                << <<"--width">>, <<"854">> >>),
         Single(<<OsRule("disallow", "linux", None)>>, <<"--nolinux">>) >> }

LegacyBlobs ==
    { <<>>,
      <<"--username", " ", "$", "{", "auth_player_name", "}">>,
      <<"--a", " ", " ", "--b", " ">> }

main_class == <<"net.minecraft.client.main.Main">>

\* The ways the launch composer is exercised: the libraries vary under fixed
\* arguments, or the arguments vary under fixed libraries.
FixedLibraries ==
    << Library("plain", Nothing, Some(Some(<<"plain.jar">>)), {}, TRUE),
       Library("natives", Nothing, Nothing, {"linux", "osx", "windows"}, TRUE) >>
FixedArguments ==
    Some([jvm |-> << Static(<<"-cp">>), Static(<<"$", "{", "classpath", "}">>) >>,
          game |-> << Static(<<"--gameDir">>) >>])

VersionSpecs ==
    {[libraries |-> libs, arguments |-> FixedArguments,
      minecraft_arguments |-> Nothing] :
        libs \in UNION {[1..n -> LibraryShapes] : n \in 0..MaxLibs}}
    \cup
    {[libraries |-> FixedLibraries,
      arguments |-> Some([jvm |-> jvm, game |-> game]),
      minecraft_arguments |-> Nothing] :
        jvm \in ArgumentLists, game \in FixedArgumentLists}
    \cup
    {[libraries |-> FixedLibraries,
      arguments |-> Some([jvm |-> jvm, game |-> game]),
      minecraft_arguments |-> Nothing] :
        jvm \in FixedArgumentLists, game \in ArgumentLists}
    \cup
    {[libraries |-> FixedLibraries, arguments |-> Nothing,
      minecraft_arguments |-> blob] :
        blob \in {Nothing} \cup {Some(b) : b \in LegacyBlobs}}

\* The environment the caller passes: with or without a classpath left from
\* before.
CallerEnvs ==
    { EnvNew,
      EnvSet(EnvSet(EnvNew, <<"classpath">>, <<"stale">>),
             <<"auth_player_name">>, <<"steve">>) }

natives_dir == <<"/tmp/", "natives">>

\* Mutant: the separator of the other platforms is used on Windows too.
path_separator_colon == ":"

\* The classpath separator, lines 571-576.
path_separator == IF get_os = "windows" THEN ";" ELSE ":"

\* format!("{0}/libraries/{1}", minecraft_path, jar_path)
library_jar_path(path) == <<"root", "/libraries/">> \o path

\* format!("{0}/versions/{1}/{1}.jar", minecraft_path, version.id)
client_jar_path == <<"root", "/versions/", "id", "/", "id", ".jar">>

\* The field of LibraryNatives read on this platform, lines 580-587.
natives_field ==
    CASE get_os = "windows" -> "windows"
      [] get_os = "macos" -> "osx"
      [] get_os = "linux" -> "linux"

LoopPanic == [panic |-> TRUE, classpath |-> <<>>, natives |-> <<>>]

\* library.rules.is_some() && !spec_rules_satisfied(..), line 557: "true"
\* when the library stays, "false" when it is skipped.
rules_gate(rules) ==
    IF rules.some THEN spec_rules_satisfied(rules.v) ELSE "true"

\* The loop over version.libraries, lines 555-603, from library i on.
RECURSIVE libraries_loop(_, _, _, _)
libraries_loop(libs, i, classpath, natives) ==
    IF i > Len(libs)
    THEN [panic |-> FALSE, classpath |-> classpath, natives |-> natives]
    ELSE LET library == libs[i]
             gate == rules_gate(library.rules)
         IN
         IF gate = "panic" THEN LoopPanic
         ELSE IF gate = "false"
         THEN libraries_loop(libs, i + 1, classpath, natives)
         ELSE IF library.artifact.some /\ ~library.artifact.v.some
         THEN LoopPanic                      \* path.as_ref().unwrap()
         ELSE LET cp == IF library.artifact.some
                        THEN classpath \o library_jar_path(library.artifact.v.v)
                                 \o <<path_separator>>
                        ELSE classpath
              IN IF natives_field \in library.natives
                 THEN IF library.native_ok
                      THEN libraries_loop(libs, i + 1, cp,
                                          Append(natives, library.name))
                      ELSE LoopPanic         \* File::open(jar_path).unwrap()
                 ELSE libraries_loop(libs, i + 1, cp, natives)

ArgsPanic == [panic |-> TRUE, launch_args |-> <<>>]

\* Mutant: of a list value only the first element is pushed.
dynamic_values_first(arg) == <<arg.value[1]>>

\* What a rule-gated argument pushes once its rules hold, lines 617-624.
dynamic_values(arg) == IF arg.single THEN <<arg.value[1]>> ELSE arg.value

\* A loop over arguments (lines 612-628 for jvm, 630-646 for game), from
\* argument i on, pushing onto launch_args.
RECURSIVE push_arguments(_, _, _)
push_arguments(args, i, launch_args) ==
    IF i > Len(args) THEN [panic |-> FALSE, launch_args |-> launch_args]
    ELSE LET arg == args[i] IN
         IF ~arg.dynamic
         THEN push_arguments(args, i + 1, Append(launch_args, arg.value[1]))
         ELSE LET sat == spec_rules_satisfied(arg.rules) IN
              IF sat = "panic" THEN ArgsPanic
              ELSE IF sat = "true"
              THEN push_arguments(args, i + 1,
                                  launch_args \o dynamic_values(arg))
              ELSE push_arguments(args, i + 1, launch_args)

\* Lines 612-646: jvm arguments, main class, game arguments.
structured_arguments(arguments) ==
    LET jvm == push_arguments(arguments.jvm, 1, <<>>) IN
    IF jvm.panic THEN ArgsPanic
    ELSE push_arguments(arguments.game, 1, Append(jvm.launch_args, main_class))

\* Mutant: empty pieces are dropped, as split_whitespace would.
RECURSIVE Split_skip_empty(_, _)
Split_skip_empty(str, piece) ==
    IF str = <<>> THEN (IF piece = <<>> THEN <<>> ELSE <<piece>>)
    ELSE IF Head(str) = " "
    THEN (IF piece = <<>> THEN <<>> ELSE <<piece>>)
             \o Split_skip_empty(Tail(str), <<>>)
    ELSE Split_skip_empty(Tail(str), Append(piece, Head(str)))

\* str::split(" "): the pieces between the spaces, empty ones included.
RECURSIVE Split(_, _)
Split(str, piece) ==
    IF str = <<>> THEN <<piece>>
    ELSE IF Head(str) = " " THEN <<piece>> \o Split(Tail(str), <<>>)
    ELSE Split(Tail(str), Append(piece, Head(str)))

heap_dump_flag ==
    <<"-XX:HeapDumpPath=MojangTricksIntelDriversForPerformance_javaw.exe_minecraft.exe.heapdump">>

\* Lines 649-668: the hardcoded JVM arguments and the legacy argument blob.
legacy_arguments(minecraft_arguments) ==
    IF ~minecraft_arguments.some THEN ArgsPanic
    ELSE [panic |-> FALSE,
          launch_args |->
            (IF get_os = "windows" THEN << heap_dump_flag >>
             ELSE <<>>)
            \o (IF get_os = "macos" THEN << <<"-XstartOnFirstThread">> >>
                ELSE <<>>)
            \o (IF get_arch = "x86" THEN << <<"-Xss1M">> >> ELSE <<>>)
            \o << <<"-Djava.library.path=", "$", "{", "natives_directory", "}">>,
                  <<"-Dminecraft.launcher.brand=", "$", "{", "launcher_name", "}">>,
                  <<"-Dminecraft.launcher.version=", "$", "{",
                    "launcher_version", "}">>,
                  <<"-Dminecraft.client.jar=">> \o client_jar_path,
                  <<"-cp">>,
                  <<"$", "{", "classpath", "}">>,
                  main_class >>
            \o Split(minecraft_arguments.v, <<>>)]

LaunchPanic(env) ==
    [status |-> "panic", env |-> env, natives |-> <<>>, raw |-> <<>>,
     args |-> <<>>]

\* Mutant: the arguments are resolved before classpath and
\* natives_directory are bound.
construct_launch_args_resolve_first(version, env) ==
    LET libs == libraries_loop(version.libraries, 1, <<>>, <<>>) IN
    IF libs.panic THEN LaunchPanic(env)
    ELSE LET classpath == libs.classpath \o client_jar_path
             bound == EnvSet(EnvSet(env, <<"classpath">>, classpath),
                             <<"natives_directory">>, natives_dir)
             listed == IF version.arguments.some
                       THEN structured_arguments(version.arguments.v)
                       ELSE legacy_arguments(version.minecraft_arguments)
         IN IF listed.panic THEN LaunchPanic(bound)
            ELSE [status |-> "ok", env |-> bound, natives |-> libs.natives,
                  raw |-> listed.launch_args,
                  args |-> [n \in DOMAIN listed.launch_args |->
                              resolve(env, listed.launch_args[n]).out]]

\* construct_launch_args: the classpath and the natives, the two bindings,
\* the argument list, and the resolution of every argument.
construct_launch_args(version, env) ==
    LET libs == libraries_loop(version.libraries, 1, <<>>, <<>>) IN
    IF libs.panic THEN LaunchPanic(env)
    ELSE LET classpath == libs.classpath \o client_jar_path
             bound == EnvSet(EnvSet(env, <<"classpath">>, classpath),
                             <<"natives_directory">>, natives_dir)
             listed == IF version.arguments.some
                       THEN structured_arguments(version.arguments.v)
                       ELSE legacy_arguments(version.minecraft_arguments)
         IN IF listed.panic THEN LaunchPanic(bound)
            ELSE [status |-> "ok", env |-> bound, natives |-> libs.natives,
                  raw |-> listed.launch_args,
                  args |-> [n \in DOMAIN listed.launch_args |->
                              resolve(bound, listed.launch_args[n]).out]]

LaunchArgsIdle ==
    /\ la_version = [libraries |-> <<>>, arguments |-> Nothing,
                     minecraft_arguments |-> Nothing]
    /\ la_env0 = EnvNew
    /\ la_env = EnvNew
    /\ la_natives = <<>>
    /\ la_raw = <<>>
    /\ la_args = <<>>
    /\ la_status = "idle"

LaunchArgsInit ==
    /\ la_version \in VersionSpecs
    /\ la_env0 \in CallerEnvs
    /\ la_env = la_env0
    /\ la_natives = <<>>
    /\ la_raw = <<>>
    /\ la_args = <<>>
    /\ la_status = "called"

ConstructLaunchArgs ==
    /\ la_status = "called"
    /\ LET r == construct_launch_args(la_version, la_env0)
       IN /\ la_status' = r.status
          /\ la_env' = r.env
          /\ la_natives' = r.natives
          /\ la_raw' = r.raw
          /\ la_args' = r.args
    /\ UNCHANGED <<la_version, la_env0>>
    /\ LaunchArgsFrame

\* The pieces of str between the occurrences of sep.
RECURSIVE Segments(_, _, _)
Segments(str, sep, piece) ==
    IF str = <<>> THEN <<piece>>
    ELSE IF Head(str) = sep THEN <<piece>> \o Segments(Tail(str), sep, <<>>)
    ELSE Segments(Tail(str), sep, Append(piece, Head(str)))

\* A library whose rules are satisfied (or that has none) and that has a
\* general artifact.
OnClasspath(library) ==
    /\ library.rules.some => spec_rules_satisfied(library.rules.v) = "true"
    /\ library.artifact.some

ClasspathLibraries == SelectSeq(la_version.libraries, OnClasspath)

PlatformSeparator == IF os = "windows" THEN ";" ELSE ":"

\* construct_launch_args got as far as binding the classpath.
ClasspathBound ==
    /\ la_status \in {"ok", "panic"}
    /\ <<"natives_directory">> \in DOMAIN la_env

\* C9: the classpath bound by construct_launch_args, cut at the platform
\* separator (";" on Windows, ":" otherwise), is N+1 segments, N the number
\* of rule-satisfied libraries with a general artifact: the paths of these
\* libraries in the order of the spec, and last versions/<id>/<id>.jar.
\* Libraries with unsatisfied rules or without an artifact give no segment.
C9_Classpath ==
    ClasspathBound =>
        LET segments == Segments(la_env[<<"classpath">>], PlatformSeparator,
                                 <<>>)
            N == Len(ClasspathLibraries)
        IN /\ Len(segments) = N + 1
           /\ \A n \in 1..N :
                segments[n] =
                    <<"root", "/libraries/">> \o ClasspathLibraries[n].artifact.v.v
           /\ segments[N + 1] =
                <<"root", "/versions/", "id", "/", "id", ".jar">>

\* On Windows, of two libraries the one whose rules hold and that has an
\* artifact is on the classpath, before the client jar, joined by ";".
C9_Witness ==
    /\ ClasspathBound
    /\ os = "windows"
    /\ Len(la_version.libraries) = 2
    /\ la_version.libraries[1].name = "osxonly"
    /\ la_version.libraries[2].name = "notosx"
    /\ la_env[<<"classpath">>] =
          <<"root", "/libraries/", "notosx.jar", ";",
            "root", "/versions/", "id", "/", "id", ".jar">>

\* What one argument contributes: a literal itself, a rule-gated value its
\* string or every element of its list when its rules are satisfied, and
\* nothing otherwise.
Contribution(arg) ==
    IF ~arg.dynamic THEN <<arg.value[1]>>
    ELSE IF spec_rules_satisfied(arg.rules) = "true" THEN arg.value
    ELSE <<>>

RECURSIVE Contributions(_)
Contributions(args) ==
    IF args = <<>> THEN <<>>
    ELSE Contribution(Head(args)) \o Contributions(Tail(args))

\* C10: with structured arguments, the argument list is the JVM arguments,
\* then the main class, then the game arguments, each group in declared
\* order; a literal is always there, a rule-gated argument only when its
\* rules are satisfied, and a rule-gated list gives each of its elements in
\* order. The list handed back is this one with every entry resolved
\* against the environment.
C10_StructuredArguments ==
    (la_status = "ok" /\ la_version.arguments.some) =>
        /\ la_raw = Contributions(la_version.arguments.v.jvm)
                      \o <<main_class>>
                      \o Contributions(la_version.arguments.v.game)
        /\ DOMAIN la_args = DOMAIN la_raw
        /\ \A n \in DOMAIN la_raw : la_args[n] = resolve(la_env, la_raw[n]).out

\* On 32-bit Linux: a rule-gated list whose rules hold, a rule-gated string
\* whose rules do not, the main class, then the fixed game argument.
C10_Witness ==
    /\ la_status = "ok"
    /\ la_version.arguments.some
    /\ os = "linux" /\ arch = "x86"
    /\ Len(la_version.arguments.v.jvm) = 2
    /\ ~la_version.arguments.v.jvm[1].single
    /\ la_version.arguments.v.jvm[2].value = << <<"-XstartOnFirstThread">> >>
    /\ la_raw = << <<"-Xss1M">>,
                   <<"-D=", "$", "{", "natives_directory", "}">>,
                   main_class,
                   <<"--gameDir">> >>
    /\ la_args[2] = <<"-D=", "/tmp/", "natives">>

\* The pieces put back together with one space between neighbours.
RECURSIVE JoinSpaces(_)
JoinSpaces(pieces) ==
    IF Len(pieces) = 1 THEN pieces[1]
    ELSE pieces[1] \o <<" ">> \o JoinSpaces(Tail(pieces))

LegacyFixed ==
    (IF os = "windows"
     THEN << <<"-XX:HeapDumpPath=MojangTricksIntelDriversForPerformance_javaw.exe_minecraft.exe.heapdump">> >>
     ELSE <<>>)
    \o (IF os = "macos" THEN << <<"-XstartOnFirstThread">> >> ELSE <<>>)
    \o (IF arch = "x86" THEN << <<"-Xss1M">> >> ELSE <<>>)
    \o << <<"-Djava.library.path=">> \o la_env[<<"natives_directory">>],
          <<"-Dminecraft.launcher.brand=">>
              \o (IF <<"launcher_name">> \in DOMAIN la_env
                  THEN la_env[<<"launcher_name">>] ELSE <<>>),
          <<"-Dminecraft.launcher.version=">>
              \o (IF <<"launcher_version">> \in DOMAIN la_env
                  THEN la_env[<<"launcher_version">>] ELSE <<>>),
          <<"-Dminecraft.client.jar=", "root", "/versions/", "id", "/", "id",
            ".jar">>,
          <<"-cp">>,
          la_env[<<"classpath">>],
          main_class >>

\* C11: without structured arguments the argument list is the heap-dump flag
\* (Windows only), the first-thread flag (macOS only), the reduced stack
\* size (32-bit only), the native-library-path, launcher-brand,
\* launcher-version and client-jar flags, the classpath flag and the
\* classpath, the main class, and then the legacy blob cut at its spaces,
\* each piece resolved: as many pieces as spaces plus one, none holding a
\* space, and together with the spaces they give the blob back.
C11_LegacyArguments ==
    (la_status = "ok" /\ ~la_version.arguments.some) =>
        LET blob == la_version.minecraft_arguments.v
            fixed == LegacyFixed
            tokens == SubSeq(la_raw, Len(fixed) + 1, Len(la_raw))
        IN /\ Len(la_args) = Len(la_raw)
           /\ Len(la_raw) >= Len(fixed) + 1
           /\ SubSeq(la_args, 1, Len(fixed)) = fixed
           /\ JoinSpaces(tokens) = blob
           /\ \A n \in DOMAIN tokens :
                \A m \in DOMAIN tokens[n] : tokens[n][m] # " "
           /\ \A n \in DOMAIN tokens :
                la_args[Len(fixed) + n] = resolve(la_env, tokens[n]).out

\* On 32-bit Windows a blob with a doubled and a trailing space: both flags
\* of the platform, and four pieces after the main class.
C11_Witness ==
    /\ la_status = "ok"
    /\ ~la_version.arguments.some
    /\ os = "windows" /\ arch = "x86"
    /\ la_version.minecraft_arguments.v = <<"--a", " ", " ", "--b", " ">>
    /\ Len(la_args) = 13
    /\ la_args[2] = <<"-Xss1M">>
    /\ la_args[9] = main_class
    /\ SubSeq(la_args, 10, 13) = << <<"--a">>, <<>>, <<"--b">>, <<>> >>

\* The classpath of this attempt: the paths of the libraries on the
\* classpath, each followed by the separator, then the client jar.
RECURSIVE JoinClasspath(_)
JoinClasspath(libraries) ==
    IF libraries = <<>> THEN <<"root", "/versions/", "id", "/", "id", ".jar">>
    ELSE <<"root", "/libraries/">> \o Head(libraries).artifact.v.v
            \o <<PlatformSeparator>> \o JoinClasspath(Tail(libraries))

ComputedKeys == {<<"classpath">>, <<"natives_directory">>}

\* C26: when construct_launch_args returns, the Environment is the caller's
\* with classpath and natives_directory bound to the values computed in
\* this call and nothing else changed, and every argument is its template
\* resolved against that one Environment: a `${classpath}` or
\* `${natives_directory}` token never gets a value bound before the call,
\* or none.
C26_BindThenResolve ==
    la_status = "ok" =>
        /\ DOMAIN la_env = DOMAIN la_env0 \cup ComputedKeys
        /\ \A k \in DOMAIN la_env0 \ ComputedKeys : la_env[k] = la_env0[k]
        /\ la_env[<<"classpath">>] = JoinClasspath(ClasspathLibraries)
        /\ la_env[<<"natives_directory">>] = <<"/tmp/", "natives">>
        /\ DOMAIN la_args = DOMAIN la_raw
        /\ \A n \in DOMAIN la_raw :
              la_args[n] = Substituted(la_env, la_raw[n], 1)

\* The caller's Environment held a stale classpath; the `${classpath}`
\* argument is the classpath of this call, with a library before the client
\* jar.
C26_Witness ==
    /\ la_status = "ok"
    /\ <<"classpath">> \in DOMAIN la_env0
    /\ Len(ClasspathLibraries) >= 1
    /\ \E n \in DOMAIN la_raw :
          /\ la_raw[n] = <<"$", "{", "classpath", "}">>
          /\ la_args[n] = JoinClasspath(ClasspathLibraries)
          /\ la_args[n] # la_env0[<<"classpath">>]

---------------------------------------------------------------------------
(* Asset materializer (minecraft.rs check_minecraft_assets)                *)

MaxObjects == 2

\* Logical names, in the order a BTreeMap iterates them.
AssetNamePool ==
    <<"icons/icon.png", "lang/en.lang", "sounds/a.ogg", "sounds/b.ogg">>
AssetNames == {AssetNamePool[i] : i \in 1..MaxObjects}
Hashes == {"aa01", "bb02"}

\* asset_index.objects: some of the names, each with the hash of its object.
AssetIndexes == UNION {[S -> Hashes] : S \in SUBSET AssetNames}

\* Option<bool>
OptionBool == {"none", "true", "false"}

\* What a path holds with respect to the object expected there: nothing,
\* the object, or something else.
FileStates == {"absent", "valid", "damaged"}

\* check_file on such a path, with the object's hash and size.
check_state(state) == state = "valid"

\* for (asset_name, asset_object) in &asset_index.objects
NameOrder(objects) ==
    SelectSeq(SubSeq(AssetNamePool, 1, MaxObjects),
              LAMBDA n : n \in DOMAIN objects)

\* Lines 479-497: the fetches pushed to downloaders_vec, from name i on.
RECURSIVE build_queue(_, _, _)
build_queue(objects, store, names) ==
    IF names = <<>> THEN <<>>
    ELSE LET asset_name == Head(names)
             hash == objects[asset_name]
         IN (IF check_state(store[hash]) THEN <<>>
             ELSE << [dest |-> hash, label |-> asset_name] >>)
            \o build_queue(objects, store, Tail(names))

AssetsInit ==
    /\ as_objects \in AssetIndexes
    /\ as_virtual_flag \in OptionBool
    /\ as_resources_flag \in OptionBool
    /\ as_index \in FileStates
    /\ as_store \in [Hashes -> FileStates]
    /\ \E st \in FileStates : as_virtual = [n \in AssetNames |-> st]
    /\ \E st \in FileStates : as_resources = [n \in AssetNames |-> st]
    /\ as_virtual0 = as_virtual
    /\ as_resources0 = as_resources
    /\ as_queue = <<>>
    /\ as_next = 0
    /\ as_inflight = {}
    /\ as_reported = <<>>
    /\ as_pc = "index"

\* Lines 452-476: the index is read when check_file accepts it, and
\* downloaded, written and parsed otherwise; every failure is unwrapped.
AssetsIndex ==
    /\ as_pc = "index"
    /\ IF check_state(as_index)
       THEN as_pc' = "queue" /\ UNCHANGED as_index
       ELSE \E outcome \in {"ok", "network", "io", "parse"} :
               /\ as_pc' = IF outcome = "ok" THEN "queue" ELSE "panic"
               /\ as_index' = CASE outcome = "ok" -> "valid"
                                [] outcome = "parse" -> "damaged"
                                [] OTHER -> as_index
    /\ UNCHANGED <<as_objects, as_virtual_flag, as_resources_flag, as_store,
                   as_virtual, as_resources, as_virtual0, as_resources0,
                   as_queue, as_next, as_inflight, as_reported>>
    /\ AssetsFrame

\* Lines 479-497: check every object and collect the fetches; create_dir_all
\* is unwrapped.
AssetsQueue ==
    /\ as_pc = "queue"
    /\ LET queue == build_queue(as_objects, as_store, NameOrder(as_objects))
       IN \E ok \in BOOLEAN :
             IF ok \/ queue = <<>>
             THEN as_queue' = queue /\ as_pc' = "fetch"
             ELSE as_queue' = <<>> /\ as_pc' = "panic"
    /\ UNCHANGED <<as_objects, as_virtual_flag, as_resources_flag, as_index,
                   as_store, as_virtual, as_resources, as_virtual0,
                   as_resources0, as_next, as_inflight, as_reported>>
    /\ AssetsFrame

\* Line 501, buffer_unordered(25): the next fetch of the vector starts while
\* fewer than 25 are in progress.
AssetsDispatch ==
    /\ as_pc = "fetch"
    /\ as_next < Len(as_queue)
    /\ Cardinality(as_inflight) < buffer_width
    /\ as_next' = as_next + 1
    /\ as_inflight' = as_inflight \cup {as_next + 1}
    /\ UNCHANGED <<as_objects, as_virtual_flag, as_resources_flag, as_index,
                   as_store, as_virtual, as_resources, as_virtual0,
                   as_resources0, as_queue, as_reported, as_pc>>
    /\ AssetsFrame

\* download_to_file ends for the fetch at position i, and the loop of lines
\* 502-504 receives what it yields: the file is written when the fetch
\* succeeds and left alone when it fails.
AssetsFetchDone(i, ok) ==
    /\ as_pc = "fetch"
    /\ i \in as_inflight
    /\ as_inflight' = as_inflight \ {i}
    /\ as_store' = IF ok THEN [as_store EXCEPT ![as_queue[i].dest] = "valid"]
                   ELSE as_store
    /\ as_reported' = Append(as_reported, [pos |-> i, ok |-> ok])
    /\ UNCHANGED <<as_objects, as_virtual_flag, as_resources_flag, as_index,
                   as_virtual, as_resources, as_virtual0, as_resources0,
                   as_queue, as_next, as_pc>>
    /\ AssetsFrame

\* Mutant: the loop stops at the first fetch that failed.
AssetsStreamEndedOnFailure ==
    \/ as_next = Len(as_queue) /\ as_inflight = {}
    \/ \E k \in DOMAIN as_reported : ~as_reported[k].ok

\* Line 502: downloaders.next() gives None once the vector is used up and
\* nothing is in progress.
AssetsStreamEnded == as_next = Len(as_queue) /\ as_inflight = {}

AssetsBatchEnd ==
    /\ as_pc = "fetch"
    /\ AssetsStreamEnded
    /\ as_pc' = "copy"
    /\ UNCHANGED <<as_objects, as_virtual_flag, as_resources_flag, as_index,
                   as_store, as_virtual, as_resources, as_virtual0,
                   as_resources0, as_queue, as_next, as_inflight, as_reported>>
    /\ AssetsFrame

\* Mutant: a flag that is set at all asks for the copy.
wants_copy_is_some(flag) == flag # "none"

\* asset_index.virtual_assets == Some(true), and the same for
\* map_to_resources.
wants_copy(flag) == flag = "true"

\* Mutant: the copy is made without looking at what is there.
replicate_unchecked(flag, source, target) ==
    IF ~wants_copy(flag) THEN [panic |-> FALSE, state |-> target]
    ELSE IF source = "absent" THEN [panic |-> TRUE, state |-> target]
    ELSE [panic |-> FALSE, state |-> source]

\* Lines 512-528 and 530-546 for one object: validate the copy, and copy the
\* object over it when it is missing or invalid; fs::copy is unwrapped.
replicate(flag, source, target) ==
    IF ~wants_copy(flag) \/ check_state(target)
    THEN [panic |-> FALSE, state |-> target]
    ELSE IF source = "absent" THEN [panic |-> TRUE, state |-> target]
    ELSE [panic |-> FALSE, state |-> source]

\* Lines 507-547: the loop over the objects, from the first of names on.
RECURSIVE copy_loop(_, _, _)
copy_loop(names, virtual, resources) ==
    IF names = <<>>
    THEN [panic |-> FALSE, virtual |-> virtual, resources |-> resources]
    ELSE LET asset_name == Head(names)
             source == as_store[as_objects[asset_name]]
             v == replicate(as_virtual_flag, source, virtual[asset_name])
             virtual1 == [virtual EXCEPT ![asset_name] = v.state]
             r == replicate(as_resources_flag, source, resources[asset_name])
             resources1 == [resources EXCEPT ![asset_name] = r.state]
         IN IF v.panic
            THEN [panic |-> TRUE, virtual |-> virtual,
                  resources |-> resources]
            ELSE IF r.panic
            THEN [panic |-> TRUE, virtual |-> virtual1,
                  resources |-> resources]
            ELSE copy_loop(Tail(names), virtual1, resources1)

AssetsCopy ==
    /\ as_pc = "copy"
    /\ LET copied == copy_loop(NameOrder(as_objects), as_virtual, as_resources)
       IN /\ as_virtual' = copied.virtual
          /\ as_resources' = copied.resources
          /\ as_pc' = IF copied.panic THEN "panic" ELSE "done"
    /\ UNCHANGED <<as_objects, as_virtual_flag, as_resources_flag, as_index,
                   as_store, as_virtual0, as_resources0, as_queue, as_next,
                   as_inflight, as_reported>>
    /\ AssetsFrame

AllFetched == \A k \in DOMAIN as_reported : as_reported[k].ok

Reported(i) == \E k \in DOMAIN as_reported : as_reported[k].pos = i

C20_DistinctDestinations ==
    \A i, j \in DOMAIN as_queue :
        i # j => as_queue[i].dest # as_queue[j].dest

\* The batch of the primary pass is over: every fetch queued has been
\* handed to the loop and none is in progress.
FetchesCompleted ==
    /\ as_next = Len(as_queue)
    /\ as_inflight = {}
    /\ \A i \in DOMAIN as_queue : Reported(i)

\* What a step does to one replica: nothing, or a copy of the object of
\* that name over a replica that fails the integrity check.
ReplicaStep(before, after, n) ==
    after # before =>
        /\ n \in DOMAIN as_objects
        /\ ~check_state(before)
        /\ after = as_store[as_objects[n]]

\* C24: a replica under virtual/ or resources/ changes only in the copy
\* loop, which runs once every fetch of the primary pass has ended; a
\* replica is written only when it fails the integrity check itself, and
\* then with the content of the content-addressed file of its object; and
\* the copy loop leaves every content-addressed file as it is.
C24_ReplicationAfterFetches ==
    [][ /\ (as_virtual' # as_virtual \/ as_resources' # as_resources) =>
              as_pc = "copy" /\ FetchesCompleted
        /\ as_pc = "copy" => as_store' = as_store
        /\ \A n \in AssetNames :
              /\ ReplicaStep(as_virtual[n], as_virtual'[n], n)
              /\ ReplicaStep(as_resources[n], as_resources'[n], n) ]_vars

\* Both flags set after a pass with a fetch: the virtual copies were valid
\* and stayed, the resources copies were missing and were made, and the
\* objects are still at their content-addressed paths.
C24_Witness ==
    /\ as_pc = "done"
    /\ as_virtual_flag = "true" /\ as_resources_flag = "true"
    /\ DOMAIN as_objects = AssetNames
    /\ Len(as_reported) >= 1
    /\ \A n \in AssetNames :
          /\ as_virtual0[n] = "valid" /\ as_virtual[n] = "valid"
          /\ as_resources0[n] = "absent" /\ as_resources[n] = "valid"
          /\ as_store[as_objects[n]] = "valid"

---------------------------------------------------------------------------
(* Launch attempt (minecraft.rs launch_minecraft_version, download_java)   *)

\* java_version.major_version of the spec; 0 stands for an absent
\* java_version.
JavaMajors == {0, 8, 16}

\* Lines 284-290: Java 8 unless the spec names a version.
java_version(major) == IF major = 0 THEN 8 ELSE major

\* How a process can end: ExitStatus.
ExitStatuses == {"success", "failure", "signal"}

\* What the caller of launch_minecraft_version gets: nothing yet, the
\* ExitStatus returned, or the panic that unwinds through it.
NoResult == [kind |-> "none", of |-> "none"]
Returned(status) == [kind |-> "status", of |-> status]
Panicked(stage) == [kind |-> "panic", of |-> stage]

\* Mutant: the directory is leaked.
drop_tempdir_forget(dir) == dir

\* TempDir::drop of natives_dir (line 306), when the function returns or a
\* panic unwinds through it: the directory is removed.
drop_tempdir(dir) == IF dir = "exists" THEN "removed" ELSE dir

\* Mutant: an unsuccessful exit is turned into a panic.
exit_outcome_checked(status) ==
    IF status = "success" THEN Returned(status) ELSE Panicked("child")

\* Lines 313-315: the status of the child goes back as it is.
exit_outcome(status) == Returned(status)

LaunchInit ==
    /\ ln_pc = "resolve"
    /\ ln_major \in JavaMajors
    /\ ln_runtime \in {"absent", "ok", "partial"}
    /\ ln_jlink = "none"
    /\ ln_natives_dir = "none"
    /\ ln_child = "none"
    /\ ln_code = "none"
    /\ ln_result = NoResult
    /\ ln_log = <<>>

\* A stage ends and the next one begins.
LaunchStep(stage, next) ==
    /\ ln_pc' = next
    /\ ln_log' = Append(ln_log, stage)
    /\ ln_result' = ln_result
    /\ ln_natives_dir' = ln_natives_dir

\* An unwrap fails: the panic unwinds through launch_minecraft_version and
\* drops its locals.
LaunchAbort(stage) ==
    /\ ln_pc' = "panicked"
    /\ ln_log' = ln_log
    /\ ln_result' = Panicked(stage)
    /\ ln_natives_dir' = drop_tempdir(ln_natives_dir)

\* Lines 275-282: get_version_spec and the facts of the version.
LaunchResolve ==
    /\ ln_pc = "resolve"
    /\ \E ok \in BOOLEAN :
          IF ok THEN LaunchStep("resolve", "java_check")
          ELSE LaunchAbort("resolve")
    /\ UNCHANGED <<ln_major, ln_runtime, ln_jlink, ln_child, ln_code>>
    /\ LaunchFrame

\* Lines 293-297: a runtime is downloaded when its directory does not exist.
LaunchJavaCheck ==
    /\ ln_pc = "java_check"
    /\ IF ln_runtime = "absent"
       THEN /\ ln_pc' = "download_java"
            /\ UNCHANGED <<ln_log, ln_result, ln_natives_dir>>
       ELSE LaunchStep("java", "libraries")
    /\ UNCHANGED <<ln_major, ln_runtime, ln_jlink, ln_child, ln_code>>
    /\ LaunchFrame

\* How download_java can go: the request, the extraction, the move of the
\* JRE (Java 8) or the start of jlink and its ExitStatus (later versions).
JavaOutcomes(version) ==
    {"ok", "download", "extract"}
    \cup (IF version = 8 THEN {"move"} ELSE {"link_spawn", "link_status"})

\* download_java, lines 188-268.
DownloadJava ==
    /\ ln_pc = "download_java"
    /\ \E outcome \in JavaOutcomes(java_version(ln_major)) :
          CASE outcome = "ok" ->
                 /\ LaunchStep("java", "libraries")
                 /\ ln_runtime' = "ok"
                 /\ ln_jlink' = IF java_version(ln_major) = 8 THEN "none"
                                ELSE "ok"
            [] outcome = "link_status" ->
                 \* lines 262-264: jlink's ExitStatus is printed, no more
                 /\ LaunchStep("java", "libraries")
                 /\ ln_runtime' \in {"absent", "partial"}
                 /\ ln_jlink' = "failed"
            [] outcome = "move" ->
                 /\ LaunchAbort(outcome)
                 /\ ln_runtime' \in {"absent", "partial"}
                 /\ ln_jlink' = ln_jlink
            [] OTHER ->
                 /\ LaunchAbort(outcome)
                 /\ UNCHANGED <<ln_runtime, ln_jlink>>
    /\ UNCHANGED <<ln_major, ln_child, ln_code>>
    /\ LaunchFrame

\* Line 300: check_minecraft_libraries.
LaunchLibraries ==
    /\ ln_pc = "libraries"
    /\ \E ok \in BOOLEAN :
          IF ok THEN LaunchStep("libraries", "assets")
          ELSE LaunchAbort("libraries")
    /\ UNCHANGED <<ln_major, ln_runtime, ln_jlink, ln_child, ln_code>>
    /\ LaunchFrame

\* Line 303: check_minecraft_assets.
LaunchAssets ==
    /\ ln_pc = "assets"
    /\ \E ok \in BOOLEAN :
          IF ok THEN LaunchStep("assets", "tempdir")
          ELSE LaunchAbort("assets")
    /\ UNCHANGED <<ln_major, ln_runtime, ln_jlink, ln_child, ln_code>>
    /\ LaunchFrame

\* Line 306: tempdir().unwrap().
LaunchTempdir ==
    /\ ln_pc = "tempdir"
    /\ \E ok \in BOOLEAN :
          IF ok
          THEN /\ ln_pc' = "args"
               /\ ln_natives_dir' = "exists"
               /\ UNCHANGED <<ln_log, ln_result>>
          ELSE LaunchAbort("tempdir")
    /\ UNCHANGED <<ln_major, ln_runtime, ln_jlink, ln_child, ln_code>>
    /\ LaunchFrame

\* Line 307: construct_launch_args; it panics when a native jar cannot be
\* opened or extracted (lines 592-600).
LaunchConstructArgs ==
    /\ ln_pc = "args"
    /\ \E ok \in BOOLEAN :
          IF ok THEN LaunchStep("args", "spawn")
          ELSE LaunchAbort("natives")
    /\ UNCHANGED <<ln_major, ln_runtime, ln_jlink, ln_child, ln_code>>
    /\ LaunchFrame

\* Lines 310-313: the Java process is started; status().await.unwrap()
\* panics when it cannot be.
LaunchSpawn ==
    /\ ln_pc = "spawn"
    /\ \E ok \in BOOLEAN :
          IF ok /\ ln_runtime # "absent"
          THEN /\ ln_pc' = "running"
               /\ ln_child' = "running"
               /\ UNCHANGED <<ln_log, ln_result, ln_natives_dir>>
          ELSE LaunchAbort("spawn") /\ UNCHANGED ln_child
    /\ UNCHANGED <<ln_major, ln_runtime, ln_jlink, ln_code>>
    /\ LaunchFrame

\* Line 313: the Java process ends.
LaunchChildExit ==
    /\ ln_pc = "running"
    /\ \E status \in ExitStatuses :
          /\ ln_code' = status
          /\ ln_child' = "exited"
          /\ ln_pc' = "return"
    /\ UNCHANGED <<ln_major, ln_runtime, ln_jlink, ln_natives_dir, ln_result,
                   ln_log>>
    /\ LaunchFrame

\* Lines 314-316: the status goes back to the caller and the locals are
\* dropped.
LaunchReturn ==
    /\ ln_pc = "return"
    /\ ln_result' = exit_outcome(ln_code)
    /\ ln_pc' = IF ln_result'.kind = "panic" THEN "panicked" ELSE "returned"
    /\ ln_natives_dir' = drop_tempdir(ln_natives_dir)
    /\ UNCHANGED <<ln_major, ln_runtime, ln_jlink, ln_child, ln_code, ln_log>>
    /\ LaunchFrame

\* C13: once the launch attempt has ended, by returning the status of the
\* Java process or by a panic on the way (natives extraction, start of the
\* process, or any stage before), its natives directory does not exist.
C13_NativesDirRemoved ==
    ln_pc \in {"returned", "panicked"} => ln_natives_dir # "exists"

\* The Java process could not be started: the directory made for this
\* attempt is gone.
C13_Witness ==
    /\ ln_pc = "panicked"
    /\ ln_result = Panicked("spawn")
    /\ ln_natives_dir = "removed"

ProvisioningFailed ==
    \/ ln_jlink = "failed"
    \/ ln_result.kind = "panic"
          /\ ln_result.of \in {"download", "extract", "move", "link_spawn"}

\* C17: when the download, the extraction or the link step of
\* provisioning fails, jlink ending unsuccessfully included, the attempt
\* aborts: the Java process is not started.
C17_ProvisioningFailureAborts == ProvisioningFailed => ln_child = "none"

AllStages == <<"resolve", "java", "libraries", "assets", "args">>

\* C18: the Java process is started only when spec resolution, runtime
\* provisioning, library and asset materialization and argument
\* construction have ended, in this order; the attempt returns the status
\* of the process whatever it is, and a panic never stands for a process
\* that ended.
C18_SpawnLastStatusReturned ==
    /\ IsPrefix(ln_log, AllStages)
    /\ ln_child # "none" => ln_log = AllStages
    /\ ln_pc = "returned" =>
          ln_child = "exited" /\ ln_result = Returned(ln_code)
    /\ ln_result.kind = "panic" => ln_child = "none"
    /\ ln_child = "exited" => ln_pc \in {"return", "returned"}

\* A runtime was downloaded, every stage ran, and the process ended
\* unsuccessfully: that status is what the caller has.
C18_Witness ==
    /\ ln_pc = "returned"
    /\ ln_jlink = "ok"
    /\ ln_log = AllStages
    /\ ln_result = Returned("failure")

\* C25: download_java runs exactly when the runtime directory of the
\* version's Java (8 when the spec names none), this os and this arch does
\* not exist; a directory that exists is left as it is; and when
\* download_java has run to its end the directory exists, so that the next
\* attempt finds it and does not provision again.
C25_ProvisionIffAbsent ==
    [][ /\ ln_pc = "java_check" =>
              (ln_pc' = "download_java" <=> ln_runtime = "absent")
        /\ ln_runtime # "absent" => ln_runtime' = ln_runtime
        /\ (ln_pc = "download_java" /\ ln_pc' = "libraries") =>
              ln_runtime' # "absent" ]_vars

---------------------------------------------------------------------------
(* Shared-mutex launch (main.rs launch_minecraft_version, gui.rs update)   *)

MaxTicks == 3

\* The launch tasks that can be alive at once: Command::perform starts one
\* at every press of the button.
Launches == {"first", "second"}

\* What the user types in the username field; the field and the
\* environment start with the empty name (gui.rs line 75, main.rs line 188).
NoName == ""
Usernames == {"a", "b"}

MutexInit ==
    /\ mx_pc = [t \in Launches |-> "idle"]
    /\ mx_lock = "free"
    /\ mx_check_env = FALSE
    /\ mx_applied = 0
    /\ mx_refused = 0
    /\ mx_username = NoName
    /\ mx_auth_player_name = NoName
    /\ mx_pressed = [t \in Launches |-> NoName]
    /\ mx_used = [t \in Launches |-> "unset"]

\* gui.rs lines 128-152, Message::LaunchPressed: the launch is handed to the
\* executor with a clone of the Arc.  mx_pressed keeps the username the GUI
\* holds at the press.
LaunchPressed ==
    /\ \E t \in Launches :
          /\ mx_pc[t] \in {"idle", "returned", "panicked"}
          /\ mx_pc' = [mx_pc EXCEPT ![t] = "lock"]
          /\ mx_pressed' = [mx_pressed EXCEPT ![t] = mx_username]
          /\ mx_used' = [mx_used EXCEPT ![t] = "unset"]
    /\ UNCHANGED <<mx_lock, mx_check_env, mx_applied, mx_refused,
                   mx_username, mx_auth_player_name>>
    /\ MutexFrame

\* main.rs line 264: env.lock().await gives the guard once the Mutex is free.
MutexLock ==
    /\ \E t \in Launches :
          /\ mx_pc[t] = "lock"
          /\ mx_lock = "free"
          /\ mx_lock' = t
          /\ mx_pc' = [mx_pc EXCEPT ![t] = "resolve"]
    /\ UNCHANGED <<mx_check_env, mx_applied, mx_refused, mx_username,
                   mx_auth_player_name, mx_pressed, mx_used>>
    /\ MutexFrame

\* The statements of main.rs lines 268-286 between taking the guard and
\* dropping it, in program order.
guarded_steps == <<"resolve", "facts", "libraries", "assets", "args", "drop">>

\* One of these statements ends, or an unwrap in it panics and the unwinding
\* drops the guard.  construct_launch_args ("args") resolves the argument
\* templates against the environment, auth_player_name among them.
MutexGuardedStep ==
    /\ \E t \in Launches, n \in 1..(Len(guarded_steps) - 1) :
          /\ mx_pc[t] = guarded_steps[n]
          /\ \E ok \in BOOLEAN :
                IF ok \/ guarded_steps[n] = "facts"
                THEN /\ mx_pc' = [mx_pc EXCEPT ![t] = guarded_steps[n + 1]]
                     /\ mx_lock' = mx_lock
                     /\ mx_used' = IF guarded_steps[n] = "args"
                                   THEN [mx_used EXCEPT
                                            ![t] = mx_auth_player_name]
                                   ELSE mx_used
                ELSE /\ mx_pc' = [mx_pc EXCEPT ![t] = "panicked"]
                     /\ mx_lock' = "free"
                     /\ mx_used' = mx_used
    /\ UNCHANGED <<mx_check_env, mx_applied, mx_refused, mx_username,
                   mx_auth_player_name, mx_pressed>>
    /\ MutexFrame

\* main.rs line 289: drop(env).
MutexDrop ==
    /\ \E t \in Launches :
          /\ mx_pc[t] = "drop"
          /\ mx_lock' = "free"
          /\ mx_pc' = [mx_pc EXCEPT ![t] = "spawn"]
    /\ UNCHANGED <<mx_check_env, mx_applied, mx_refused, mx_username,
                   mx_auth_player_name, mx_pressed, mx_used>>
    /\ MutexFrame

\* main.rs lines 292-297: the Java process runs and its status is returned.
MutexSpawn ==
    /\ \E t \in Launches :
          /\ mx_pc[t] \in {"spawn", "running"}
          /\ \E ok \in BOOLEAN :
                mx_pc' = [mx_pc EXCEPT
                             ![t] = IF mx_pc[t] = "running" THEN "returned"
                                    ELSE IF ok THEN "running"
                                    ELSE "panicked"]
    /\ UNCHANGED <<mx_lock, mx_check_env, mx_applied, mx_refused,
                   mx_username, mx_auth_player_name, mx_pressed, mx_used>>
    /\ MutexFrame

\* gui.rs lines 158-161, Message::UsernameChanged.
UsernameChanged ==
    /\ mx_applied < MaxTicks
    /\ \E username \in Usernames : mx_username' = username
    /\ mx_check_env' = TRUE
    /\ UNCHANGED <<mx_pc, mx_lock, mx_applied, mx_refused,
                   mx_auth_player_name, mx_pressed, mx_used>>
    /\ MutexFrame

\* gui.rs lines 162-169 and 177-182, Message::CheckEnv, sent every 10 ms
\* while check_env is set: try_lock, and on Some the write and the end of
\* the guard's scope.  On None the handler returns at once; mx_refused
\* counts these up to MaxTicks.
CheckEnv ==
    /\ mx_check_env
    /\ IF mx_lock = "free"
       THEN /\ mx_auth_player_name' = mx_username
            /\ mx_applied' = mx_applied + 1
            /\ mx_check_env' = FALSE
            /\ UNCHANGED mx_refused
       ELSE /\ mx_refused' = Min(mx_refused + 1, MaxTicks)
            /\ UNCHANGED <<mx_applied, mx_check_env, mx_auth_player_name>>
    /\ UNCHANGED <<mx_pc, mx_lock, mx_username, mx_pressed, mx_used>>
    /\ MutexFrame

\* The phases of the launch that fetch or extract.
FetchPhases == {"resolve", "libraries", "assets", "args"}

\* C19: in the shared-mutex launch the lock is held only around the writes
\* to the environment, never while the launch resolves the spec,
\* materializes libraries or assets, or extracts natives; the GUI's
\* try_lock is therefore never refused in those phases.
C19_LockOnlyAroundMutation ==
    \A t \in Launches : mx_pc[t] \in FetchPhases => mx_lock # t

\* C22: the launch a press of the button starts resolves its arguments with
\* the username the GUI held at the press, the one last entered before it,
\* whatever CheckEnv ticks and other launches did in between.
C22_LaunchUsesLatestUsername ==
    \A t \in Launches : mx_used[t] # "unset" => mx_used[t] = mx_pressed[t]

\* C30: the CheckEnv handler never waits for the lock: while check_env is
\* set a tick can always be handled, whoever holds the lock, and check_env
\* is cleared only with the username written.  And a username the user
\* entered and did not change again is eventually the environment's
\* auth_player_name with check_env cleared, when ticks keep coming and every
\* launch goes on until it has released the lock.
C30_UsernameEventuallyApplied ==
    /\ [](mx_check_env => ENABLED CheckEnv)
    /\ [](~mx_check_env => mx_auth_player_name = mx_username)
    /\ \A u \in Usernames :
          [](mx_username = u /\ mx_check_env
                => <>(\/ mx_auth_player_name = u /\ ~mx_check_env
                      \/ mx_username # u))

---------------------------------------------------------------------------
(* Library pass (minecraft.rs check_minecraft_libraries)                   *)

\* What a library path holds with respect to the jar expected there: nothing,
\* the jar, something else, or the jar without read permission.
LibFileStates == {"absent", "valid", "damaged", "unreadable"}

\* The jar every download descriptor of the pass names.
library_jar == <<1, 0>>

lib_entry(state) ==
    CASE state = "absent" -> Absent
      [] state = "valid" -> FileEntry(library_jar, TRUE)
      [] state = "damaged" -> FileEntry(<<0>>, TRUE)
      [] state = "unreadable" -> FileEntry(library_jar, FALSE)

\* Mutant: a path that holds anything passes.
check_path_exists_only(state) ==
    IF Exists(lib_entry(state)) THEN "true" ELSE "false"

\* check_file(jar_path, &download.sha1, download.size), lines 396 and 426.
check_path(state) ==
    check_file(lib_entry(state), Descriptor(library_jar).sha1,
               Descriptor(library_jar).size)

\* The path of the classifier named for this platform.
native_jar_path(library) ==
    library_jar_path(<<library.name, "-natives-", natives_field, ".jar">>)

LibrariesInit ==
    /\ lb_libs \in UNION {[1..n -> LibraryShapes] : n \in 0..MaxLibs}
    /\ lb_store \in [{"artifact", "native"} -> LibFileStates]
    /\ lb_next = 1
    /\ lb_checked = <<>>
    /\ lb_queue = <<>>
    /\ lb_reported = 0
    /\ lb_pc = "loop"

\* One download of a library, lines 388-408 (kind "artifact") and 421-438
\* (kind "native"): the path is checked and, when the check fails, its
\* folders are made and a fetch is pushed.
download_step(i, kind, dest, label, mkdir_ok) ==
    LET result == check_path(lb_store[kind])
        call == [lib |-> i, kind |-> kind, dest |-> dest, result |-> result]
    IN [panic |-> result = "panic" \/ (result = "false" /\ ~mkdir_ok),
        checked |-> <<call>>,
        queued |-> IF result = "false" /\ mkdir_ok
                   THEN << [lib |-> i, kind |-> kind, dest |-> dest,
                            label |-> label] >>
                   ELSE <<>>]

PanicStep == [panic |-> TRUE, checked |-> <<>>, queued |-> <<>>]
SkipStep == [panic |-> FALSE, checked |-> <<>>, queued |-> <<>>]

\* Lines 388-408.
artifact_step(i, library, mkdir_ok) ==
    IF ~library.artifact.some THEN SkipStep
    ELSE IF ~library.artifact.v.some THEN PanicStep  \* path.as_ref().unwrap()
    ELSE download_step(i, "artifact", library_jar_path(library.artifact.v.v),
                       <<"Library ", library.name>>, mkdir_ok)

\* Lines 411-438.  `listed` says whether classifiers holds the name for this
\* platform, with a path.
native_step(i, library, listed, mkdir_ok) ==
    IF natives_field \notin library.natives THEN SkipStep
    ELSE IF ~listed THEN PanicStep             \* .get(..).unwrap()
    ELSE download_step(i, "native", native_jar_path(library),
                       <<"Native for ", library.name>>, mkdir_ok)

\* One turn of the loop over version.libraries, lines 381-439.
LibrariesVisit ==
    /\ lb_pc = "loop"
    /\ lb_next <= Len(lb_libs)
    /\ LET library == lb_libs[lb_next]
           gate == rules_gate(library.rules)
       IN IF gate = "panic"
          THEN lb_pc' = "panicked"
               /\ UNCHANGED <<lb_next, lb_checked, lb_queue>>
          ELSE IF gate = "false"
          THEN lb_next' = lb_next + 1
               /\ UNCHANGED <<lb_pc, lb_checked, lb_queue>>
          ELSE \E mkdir_artifact, mkdir_native, listed \in BOOLEAN :
                  /\ library.native_ok => listed
                  /\ LET a == artifact_step(lb_next, library, mkdir_artifact)
                         n == IF a.panic THEN SkipStep
                              ELSE native_step(lb_next, library, listed,
                                               mkdir_native)
                     IN /\ lb_checked' = lb_checked \o a.checked \o n.checked
                        /\ lb_queue' = lb_queue \o a.queued \o n.queued
                        /\ IF a.panic \/ n.panic
                           THEN lb_pc' = "panicked" /\ lb_next' = lb_next
                           ELSE lb_pc' = lb_pc /\ lb_next' = lb_next + 1
    /\ UNCHANGED <<lb_libs, lb_store, lb_reported>>
    /\ LibrariesFrame

\* The end of the loop, line 439.
LibrariesQueued ==
    /\ lb_pc = "loop"
    /\ lb_next > Len(lb_libs)
    /\ lb_pc' = "batch"
    /\ UNCHANGED <<lb_libs, lb_store, lb_next, lb_checked, lb_queue,
                   lb_reported>>
    /\ LibrariesFrame

\* Lines 442-448: the batch loop receives every fetch of downloaders_vec and
\* the function returns.
LibrariesBatch ==
    /\ lb_pc = "batch"
    /\ lb_reported' = Len(lb_queue)
    /\ lb_pc' = "done"
    /\ UNCHANGED <<lb_libs, lb_store, lb_next, lb_checked, lb_queue>>
    /\ LibrariesFrame

\* The downloads library i declares for this platform.
Declared(i) ==
    {kind \in {"artifact", "native"} :
        \/ kind = "artifact" /\ lb_libs[i].artifact.some
        \/ kind = "native" /\ natives_field \in lb_libs[i].natives}

Checked(i, kind) ==
    \E k \in DOMAIN lb_checked :
        lb_checked[k].lib = i /\ lb_checked[k].kind = kind

Queued(i, kind) ==
    \E k \in DOMAIN lb_queue : lb_queue[k].lib = i /\ lb_queue[k].kind = kind

\* What the path of a download holds fails the integrity check: it is not
\* the jar, whole and readable, and the check says so.
FailsIntegrity(kind) == lb_store[kind] \in {"absent", "damaged"}

\* C23: in the library pass, a library whose rules are not satisfied is
\* neither checked nor fetched; for a library whose rules are satisfied or
\* absent, the artifact and the native classifier of this platform are each
\* checked once and are queued for fetch exactly when their path fails the
\* integrity check, under libraries/.  The loop has gone through every
\* library when the batch starts, and nothing is queued twice.
C23_LibraryPass ==
    /\ \A i \in DOMAIN lb_libs :
          /\ i >= lb_next /\ lb_pc # "panicked" =>
                \A kind \in {"artifact", "native"} :
                    ~Checked(i, kind) /\ ~Queued(i, kind)
          /\ i < lb_next /\ rules_gate(lb_libs[i].rules) = "false" =>
                \A kind \in {"artifact", "native"} :
                    ~Checked(i, kind) /\ ~Queued(i, kind)
          /\ i < lb_next /\ rules_gate(lb_libs[i].rules) = "true" =>
                \A kind \in {"artifact", "native"} :
                    /\ Checked(i, kind) <=> kind \in Declared(i)
                    /\ Queued(i, kind) <=>
                          kind \in Declared(i) /\ FailsIntegrity(kind)
    /\ \A k \in DOMAIN lb_queue :
          /\ SubSeq(lb_queue[k].dest, 1, 2) = <<"root", "/libraries/">>
          /\ \A j \in DOMAIN lb_queue :
                (lb_queue[j].lib = lb_queue[k].lib
                    /\ lb_queue[j].kind = lb_queue[k].kind) => j = k
    /\ lb_pc \in {"batch", "done"} => lb_next = Len(lb_libs) + 1

\* A pass that ended having skipped a library for its rules, found a jar in
\* place and queued a damaged or missing native.
C23_Witness ==
    /\ lb_pc = "done"
    /\ \E i \in DOMAIN lb_libs : rules_gate(lb_libs[i].rules) = "false"
    /\ \E i \in DOMAIN lb_libs :
          /\ Declared(i) = {"artifact", "native"}
          /\ Checked(i, "artifact") /\ ~Queued(i, "artifact")
          /\ Queued(i, "native")
    /\ lb_reported = 1

---------------------------------------------------------------------------
(* Components at rest                                                      *)

AssetsIdle ==
    /\ as_objects = <<>>
    /\ as_virtual_flag = "none"
    /\ as_resources_flag = "none"
    /\ as_index = "absent"
    /\ as_store = <<>>
    /\ as_virtual = <<>>
    /\ as_resources = <<>>
    /\ as_virtual0 = <<>>
    /\ as_resources0 = <<>>
    /\ as_queue = <<>>
    /\ as_next = 0
    /\ as_inflight = {}
    /\ as_reported = <<>>
    /\ as_pc = "idle"

LaunchIdle ==
    /\ ln_pc = "idle"
    /\ ln_major = 0
    /\ ln_runtime = "absent"
    /\ ln_jlink = "none"
    /\ ln_natives_dir = "none"
    /\ ln_child = "none"
    /\ ln_code = "none"
    /\ ln_result = NoResult
    /\ ln_log = <<>>

LibrariesIdle ==
    /\ lb_libs = <<>>
    /\ lb_store = [kind \in {"artifact", "native"} |-> "absent"]
    /\ lb_next = 1
    /\ lb_checked = <<>>
    /\ lb_queue = <<>>
    /\ lb_reported = 0
    /\ lb_pc = "idle"

MutexIdle ==
    /\ mx_pc = [t \in Launches |-> "idle"]
    /\ mx_lock = "free"
    /\ mx_check_env = FALSE
    /\ mx_applied = 0
    /\ mx_refused = 0
    /\ mx_username = NoName
    /\ mx_auth_player_name = NoName
    /\ mx_pressed = [t \in Launches |-> NoName]
    /\ mx_used = [t \in {"first", "second"} |-> "unset"]

---------------------------------------------------------------------------
(* Specifications                                                          *)

InitCheckFile ==
    /\ PlatformInit
    /\ CheckFileInit /\ RulesIdle /\ BatchIdle /\ ResolverIdle /\ EnvIdle
    /\ LaunchArgsIdle /\ AssetsIdle /\ LaunchIdle /\ MutexIdle
    /\ LibrariesIdle
NextCheckFile == CheckFile
SpecCheckFile == InitCheckFile /\ [][NextCheckFile]_vars

InitRules ==
    /\ PlatformInit
    /\ CheckFileIdle /\ RulesInit /\ BatchIdle /\ ResolverIdle /\ EnvIdle
    /\ LaunchArgsIdle /\ AssetsIdle /\ LaunchIdle /\ MutexIdle
    /\ LibrariesIdle
NextRules == EvalRules
SpecRules == InitRules /\ [][NextRules]_vars

\* The platform plays no part in a batch: one platform is enough.
InitBatch ==
    /\ os = "linux" /\ arch = "x64"
    /\ CheckFileIdle /\ RulesIdle /\ BatchInit /\ ResolverIdle /\ EnvIdle /\ LaunchArgsIdle /\ AssetsIdle /\ LaunchIdle /\ MutexIdle
    /\ LibrariesIdle
NextBatch == BatchFill \/ BatchYield \/ BatchEnd
SpecBatch == InitBatch /\ [][NextBatch]_vars
\* The executor polls the task whenever it can make progress and every
\* transfer in progress ends.
FairSpecBatch == SpecBatch /\ WF_vars(NextBatch)

\* Of the platform the resolver reads the OS only (a directory in the jar's
\* place).
InitResolver ==
    /\ os \in OSes /\ arch = "x64"
    /\ CheckFileIdle /\ RulesIdle /\ BatchIdle /\ ResolverInit /\ EnvIdle /\ LaunchArgsIdle /\ AssetsIdle /\ LaunchIdle /\ MutexIdle
    /\ LibrariesIdle
NextResolver ==
    \/ ResolverStart \/ CachedRead \/ CachedCheck
    \/ Mkdir \/ SpecGet \/ SpecCreate \/ SpecBody \/ SpecWrite \/ ParseSpec
    \/ JarGet \/ JarCreate \/ JarBody \/ JarWrite
    \/ ResolverReturn
SpecResolver == InitResolver /\ [][NextResolver]_vars

\* The environment does not read the platform.
InitEnv ==
    /\ os = "linux" /\ arch = "x64"
    /\ CheckFileIdle /\ RulesIdle /\ BatchIdle /\ ResolverIdle /\ EnvInit
    /\ LaunchArgsIdle /\ AssetsIdle /\ LaunchIdle /\ MutexIdle
    /\ LibrariesIdle
NextEnv == Set \/ Remove \/ Resolve
SpecEnv == InitEnv /\ [][NextEnv]_vars

InitLaunchArgs ==
    /\ PlatformInit
    /\ CheckFileIdle /\ RulesIdle /\ BatchIdle /\ ResolverIdle /\ EnvIdle
    /\ LaunchArgsInit /\ AssetsIdle /\ LaunchIdle /\ MutexIdle
    /\ LibrariesIdle
NextLaunchArgs == ConstructLaunchArgs
SpecLaunchArgs == InitLaunchArgs /\ [][NextLaunchArgs]_vars

InitAssets ==
    /\ os = "linux" /\ arch = "x64"
    /\ CheckFileIdle /\ RulesIdle /\ BatchIdle /\ ResolverIdle /\ EnvIdle
    /\ LaunchArgsIdle /\ AssetsInit /\ LaunchIdle /\ MutexIdle
    /\ LibrariesIdle
NextAssets ==
    \/ AssetsIndex \/ AssetsQueue \/ AssetsDispatch
    \/ (\E i \in 1..MaxObjects, ok \in BOOLEAN : AssetsFetchDone(i, ok))
    \/ AssetsBatchEnd \/ AssetsCopy
SpecAssets == InitAssets /\ [][NextAssets]_vars

InitLaunch ==
    /\ PlatformInit
    /\ CheckFileIdle /\ RulesIdle /\ BatchIdle /\ ResolverIdle /\ EnvIdle
    /\ LaunchArgsIdle /\ AssetsIdle /\ LaunchInit /\ MutexIdle
    /\ LibrariesIdle
NextLaunch ==
    \/ LaunchResolve \/ LaunchJavaCheck \/ DownloadJava \/ LaunchLibraries
    \/ LaunchAssets \/ LaunchTempdir \/ LaunchConstructArgs \/ LaunchSpawn
    \/ LaunchChildExit \/ LaunchReturn
SpecLaunch == InitLaunch /\ [][NextLaunch]_vars

\* The shared-mutex launch does not read the platform.
InitMutex ==
    /\ os = "linux" /\ arch = "x64"
    /\ CheckFileIdle /\ RulesIdle /\ BatchIdle /\ ResolverIdle /\ EnvIdle
    /\ LaunchArgsIdle /\ AssetsIdle /\ LaunchIdle /\ MutexInit
    /\ LibrariesIdle
NextMutex ==
    \/ LaunchPressed \/ MutexLock \/ MutexGuardedStep \/ MutexDrop
    \/ MutexSpawn \/ UsernameChanged \/ CheckEnv
SpecMutex == InitMutex /\ [][NextMutex]_vars

\* The subscription sends CheckEnv every 10 ms while check_env is set, and a
\* launch that can take the lock, go on to its next statement or drop the
\* guard does so.
FairSpecMutex ==
    /\ SpecMutex
    /\ WF_vars(CheckEnv)
    /\ WF_vars(MutexLock)
    /\ WF_vars(MutexGuardedStep)
    /\ WF_vars(MutexDrop)

InitLibraries ==
    /\ PlatformInit
    /\ CheckFileIdle /\ RulesIdle /\ BatchIdle /\ ResolverIdle /\ EnvIdle
    /\ LaunchArgsIdle /\ AssetsIdle /\ LaunchIdle /\ MutexIdle
    /\ LibrariesInit
NextLibraries == LibrariesVisit \/ LibrariesQueued \/ LibrariesBatch
SpecLibraries == InitLibraries /\ [][NextLibraries]_vars

=============================================================================
